---- MODULE Spec2Model ----
(***************************************************************************)
(* Model of unity_indexer.go: the line-oriented parser of C# source files  *)
(* (UnityParser.ParseFile), the keyword derivation (extractKeywords,       *)
(* splitCamelCase), the project scan (ScanUnityProject) and main.          *)
(*                                                                         *)
(* A Go string is modelled as a sequence of characters, each character a   *)
(* one-character TLA+ string.  Values kept in records (names, comments,    *)
(* keywords) are converted to TLA+ strings with Str so that traces read    *)
(* like the program's data.                                                *)
(***************************************************************************)
EXTENDS Integers, Sequences, FiniteSets, TLC

VARIABLES
    pc,                 \* position of the running operation
    lines,              \* ParseFile: lines := strings.Split(content, "\n")
    i,                  \* ParseFile: loop index (1-based here)
    currentComments,    \* ParseFile: pending comment accumulator
    currentAttributes,  \* ParseFile: pending attribute accumulator
    currentNamespace,   \* ParseFile: first namespace match of the file
    currentClass,       \* ParseFile: first class match of the file
    functions,          \* ParseFile: records emitted so far
    emittedAt,          \* history: for each record, the index of its line
    kwName,             \* extractKeywords: funcName argument
    kwComments,         \* extractKeywords: comments argument
    kwResult,           \* extractKeywords: returned slice
    statResult,         \* ScanUnityProject: outcome of os.Stat(assetsPath)
    entries,            \* ScanUnityProject: what filepath.Walk visits, in order
    walkPos,            \* ScanUnityProject: next entry of the walk
    allFunctions,       \* ScanUnityProject: aggregated records
    parsedFiles,        \* history: the paths handed to ParseFile
    warnings,           \* paths reported by the per-file warning
    scanErr,            \* error returned by ScanUnityProject
    exitCode,           \* main: process exit code ("none" while running)
    outputWritten,      \* main: whether the output document was written
    document,           \* GenerateUnityMarkdown: the text built (sb)
    mapOrder,           \* GenerateUnityMarkdown: the orders in which range visited the maps
    run,                \* number of the run of main (1 or 2)
    previousDocument,   \* the document of the run before
    stringArrays,       \* memory: the backing arrays of the []string slices
    recordArrays,       \* memory: the backing arrays of the []FunctionInfo slices
    commentsSlice,      \* ParseFile: slice header of currentComments
    attributesSlice,    \* ParseFile: slice header of currentAttributes
    functionsSlice,     \* ParseFile: slice header of functions
    allFunctionsSlice   \* ScanUnityProject: slice header of allFunctions

parseVars == <<lines, i, currentComments, currentAttributes, currentNamespace,
               currentClass, functions, emittedAt>>
kwVars    == <<kwName, kwComments, kwResult>>
scanVars  == <<statResult, entries, walkPos, allFunctions, parsedFiles,
               warnings, scanErr, exitCode, outputWritten>>
renderVars == <<document, mapOrder>>
runVars   == <<run, previousDocument>>
memVars   == <<stringArrays, recordArrays, commentsSlice, attributesSlice,
               functionsSlice, allFunctionsSlice>>
vars      == <<pc, parseVars, kwVars, scanVars, renderVars, runVars, memVars>>

-----------------------------------------------------------------------------
(* Characters and the string helpers of package strings                    *)

UpperSeq == <<"A","B","C","D","E","F","G","H","I","J","K","L","M",
              "N","O","P","Q","R","S","T","U","V","W","X","Y","Z">>
LowerSeq == <<"a","b","c","d","e","f","g","h","i","j","k","l","m",
              "n","o","p","q","r","s","t","u","v","w","x","y","z">>
Range(s) == {s[k] : k \in DOMAIN s}
UpperChars == Range(UpperSeq)
LowerChars == Range(LowerSeq)
DigitChars == {"0","1","2","3","4","5","6","7","8","9"}

\* regexp class \w
WordChars == UpperChars \cup LowerChars \cup DigitChars \cup {"_"}
IsWord(c) == c \in WordChars
\* regexp class \s
IsWs(c) == c \in {" ", "\t", "\n", "\f", "\r"}
\* unicode.IsSpace on the characters of the model's alphabet
IsSpace(c) == c \in {" ", "\t", "\n", "\f", "\r"}

\* strings.ToLower on one character
LowerChar(c) ==
    IF c \in UpperChars
    THEN LowerSeq[CHOOSE k \in DOMAIN UpperSeq : UpperSeq[k] = c]
    ELSE c
ToLower(s) == [k \in DOMAIN s |-> LowerChar(s[k])]

RECURSIVE Str(_)
Str(s) == IF s = <<>> THEN "" ELSE Head(s) \o Str(Tail(s))
StrAll(ss) == [k \in DOMAIN ss |-> Str(ss[k])]

\* s[from..to] with 1-based inclusive positions; empty when from > to
Sub(s, from, to) == IF from > to THEN <<>> ELSE SubSeq(s, from, to)

\* p occurs in s starting at position k
MatchAt(s, k, p) ==
    /\ k >= 1
    /\ k + Len(p) - 1 <= Len(s)
    /\ Sub(s, k, k + Len(p) - 1) = p

HasPrefix(s, p) == MatchAt(s, 1, p)
HasSuffix(s, p) == Len(p) <= Len(s) /\ MatchAt(s, Len(s) - Len(p) + 1, p)
Contains(s, p) == \E k \in 1..(Len(s) + 1) : MatchAt(s, k, p)
TrimPrefix(s, p) == IF HasPrefix(s, p) THEN Sub(s, Len(p) + 1, Len(s)) ELSE s

\* strings.TrimSpace: leading and trailing white space is cut off
RECURSIVE SpaceEnd(_, _)
SpaceEnd(s, p) == IF p <= Len(s) /\ IsSpace(s[p]) THEN SpaceEnd(s, p + 1) ELSE p
RECURSIVE SpaceStart(_, _)
SpaceStart(s, p) == IF p >= 1 /\ IsSpace(s[p]) THEN SpaceStart(s, p - 1) ELSE p
TrimSpace(s) == Sub(s, SpaceEnd(s, 1), SpaceStart(s, Len(s)))

\* first position >= p of s that holds a character not satisfying the class
\* (Len(s) + 1 when the run reaches the end): the end of a greedy run
RECURSIVE WsEnd(_, _)
WsEnd(s, p) == IF p <= Len(s) /\ IsWs(s[p]) THEN WsEnd(s, p + 1) ELSE p
RECURSIVE WordEnd(_, _)
WordEnd(s, p) == IF p <= Len(s) /\ IsWord(s[p]) THEN WordEnd(s, p + 1) ELSE p

Max(S) == CHOOSE x \in S : \A y \in S : x >= y
Min(S) == CHOOSE x \in S : \A y \in S : x <= y

\* Literal strings of the source, as character sequences
PUBLIC_ == <<"p","u","b","l","i","c">>
PRIVATE_ == <<"p","r","i","v","a","t","e">>
PROTECTED_ == <<"p","r","o","t","e","c","t","e","d">>
INTERNAL_ == <<"i","n","t","e","r","n","a","l">>
STATIC_ == <<"s","t","a","t","i","c">>
NAMESPACE_ == <<"n","a","m","e","s","p","a","c","e">>
CLASS_ == <<"c","l","a","s","s">>
IENUMERATOR_ == <<"I","E","n","u","m","e","r","a","t","o","r">>
SLASH2 == <<"/","/">>
SLASH3 == <<"/","/","/">>
SUMMARY_OPEN == <<"<","s","u","m","m","a","r","y",">">>
SUMMARY_CLOSE == <<"<","/","s","u","m","m","a","r","y",">">>
PARAM_OPEN == <<"<","p","a","r","a","m"," ","n","a","m","e","=","\"">>
PARAM_MID == <<"\"",">">>
PARAM_CLOSE == <<"<","/","p","a","r","a","m",">">>
RETURNS_OPEN == <<"<","r","e","t","u","r","n","s",">">>
RETURNS_CLOSE == <<"<","/","r","e","t","u","r","n","s",">">>
\* "参数: " and "返回: " (the two CJK characters are named by code point)
PARAM_LABEL == <<"U+53C2","U+6570",":"," ">>
RETURNS_LABEL == <<"U+8FD4","U+56DE",":"," ">>

-----------------------------------------------------------------------------
(* The regular expressions of NewUnityParser, as matchers over character   *)
(* sequences.  Each follows Go's leftmost-first (backtracking) choice, so  *)
(* the captured groups are the ones FindStringSubmatch returns.            *)

NoMatch == [ok |-> FALSE]

\* The tail of functionRegex from the type token on:
\*   ([\w<>\[\]]+)\s+(\w+)\s*\(([^)]*)\)
\* Each greedy run is followed by a character outside its class, so only the
\* longest run can succeed.
IsTypeChar(c) == IsWord(c) \/ c \in {"<", ">", "[", "]"}
RECURSIVE TypeEnd(_, _)
TypeEnd(s, p) == IF p <= Len(s) /\ IsTypeChar(s[p]) THEN TypeEnd(s, p + 1) ELSE p

TailMatch(s, d) ==
    LET te == TypeEnd(s, d)
        we == WsEnd(s, te)
        ne == WordEnd(s, we)
        ge == WsEnd(s, ne)
    IN  IF /\ te > d /\ we > te /\ ne > we
           /\ ge <= Len(s) /\ s[ge] = "("
           /\ \E k \in (ge + 1)..Len(s) : s[k] = ")"
        THEN [ok |-> TRUE, m2 |-> Sub(s, d, te - 1), m3 |-> Sub(s, we, ne - 1)]
        ELSE NoMatch

\* One iteration of (public|private|protected|internal|static|\s): the position
\* after it, or 0 when no alternative matches at p.  No modifier is a prefix of
\* another, so at most one alternative applies.
ModStep(s, p) ==
    IF MatchAt(s, p, PUBLIC_) THEN p + Len(PUBLIC_)
    ELSE IF MatchAt(s, p, PRIVATE_) THEN p + Len(PRIVATE_)
    ELSE IF MatchAt(s, p, PROTECTED_) THEN p + Len(PROTECTED_)
    ELSE IF MatchAt(s, p, INTERNAL_) THEN p + Len(INTERNAL_)
    ELSE IF MatchAt(s, p, STATIC_) THEN p + Len(STATIC_)
    ELSE IF p <= Len(s) /\ IsWs(s[p]) THEN p + 1
    ELSE 0

\* (public|...|\s)+ followed by the tail: greedy, one more iteration is tried
\* before leaving the loop; some = at least one iteration has been made.
RECURSIVE ModLoop(_, _, _)
ModLoop(s, p, some) ==
    LET nx == ModStep(s, p)
        deeper == IF nx # 0 THEN ModLoop(s, nx, TRUE) ELSE NoMatch
    IN  IF deeper.ok THEN deeper
        ELSE IF some THEN TailMatch(s, p)
        ELSE NoMatch

\* One iteration of (?:\[[\w\s,()=.]+\]\s*) up to and including "]": the
\* position after "]", or 0.
IsAttrChar(c) == IsWord(c) \/ IsWs(c) \/ c \in {",", "(", ")", "=", "."}
RECURSIVE AttrEnd(_, _)
AttrEnd(s, p) == IF p <= Len(s) /\ IsAttrChar(s[p]) THEN AttrEnd(s, p + 1) ELSE p
BracketIter(s, p) ==
    LET e == AttrEnd(s, p + 1)
    IN  IF /\ p <= Len(s) /\ s[p] = "[" /\ e > p + 1
           /\ e <= Len(s) /\ s[e] = "]"
        THEN e + 1 ELSE 0

\* (?:\[...\]\s*)* followed by the modifiers and the tail, from position p:
\* greedy, one more iteration is tried before the loop is left.  AfterWs tries
\* the ends w of a greedy \s*, the longest first, down to lo.
RECURSIVE BracketLoop(_, _), AfterWs(_, _, _)
BracketLoop(s, p) ==
    LET e == BracketIter(s, p)
        more == IF e = 0 THEN NoMatch ELSE AfterWs(s, WsEnd(s, e), e)
    IN  IF more.ok THEN more ELSE ModLoop(s, p, FALSE)
AfterWs(s, w, lo) ==
    IF w < lo THEN NoMatch
    ELSE LET r == BracketLoop(s, w)
         IN  IF r.ok THEN r ELSE AfterWs(s, w - 1, lo)

\* functionRegex.FindStringSubmatch(line).  A line holds no "\n", so (?m)^
\* matches at its first position only; ^\s* is greedy.
functionRegex(s) == AfterWs(s, WsEnd(s, 1), 1)

\* attributeRegex \[(\w+)(?:\([^)]*\))?\] at position p
AttrAt(s, p) ==
    LET we == WordEnd(s, p + 1)
        closes == {k \in (we + 1)..Len(s) : s[k] = ")"}
    IN  IF ~(p <= Len(s) /\ s[p] = "[" /\ we > p + 1 /\ we <= Len(s)) THEN NoMatch
        ELSE IF \/ s[we] = "]"
                \/ /\ s[we] = "(" /\ closes # {}
                   /\ Min(closes) + 1 <= Len(s) /\ s[Min(closes) + 1] = "]"
        THEN [ok |-> TRUE, m1 |-> Sub(s, p + 1, we - 1)]
        ELSE NoMatch

\* attributeRegex.FindStringSubmatch(trimmed): the leftmost match
attributeRegex(s) ==
    LET hits == {p \in DOMAIN s : AttrAt(s, p).ok}
    IN  IF hits = {} THEN NoMatch ELSE AttrAt(s, Min(hits))

\* namespaceRegex namespace\s+([\w.]+) : the leftmost match in the content
RECURSIVE DottedEnd(_, _)
DottedEnd(s, p) ==
    IF p <= Len(s) /\ (IsWord(s[p]) \/ s[p] = ".") THEN DottedEnd(s, p + 1) ELSE p
NamespaceAt(s, p) ==
    LET a == p + Len(NAMESPACE_)
        b == WsEnd(s, a)
        c == DottedEnd(s, b)
    IN  IF MatchAt(s, p, NAMESPACE_) /\ b > a /\ c > b
        THEN [ok |-> TRUE, m1 |-> Sub(s, b, c - 1)] ELSE NoMatch
namespaceRegex(s) ==
    LET hits == {p \in DOMAIN s : NamespaceAt(s, p).ok}
    IN  IF hits = {} THEN NoMatch ELSE NamespaceAt(s, Min(hits))

\* classRegex (?:public|private|internal)?\s*(?:sealed|abstract)?\s*(?:partial)?
\* \s*class\s+(\w+).  Everything before "class" is optional and consumes only
\* modifier words and white space, so the leftmost match captures the word
\* after the first "class" that is followed by white space and a word.
ClassAt(s, p) ==
    LET a == p + Len(CLASS_)
        b == WsEnd(s, a)
        c == WordEnd(s, b)
    IN  IF MatchAt(s, p, CLASS_) /\ b > a /\ c > b
        THEN [ok |-> TRUE, m1 |-> Sub(s, b, c - 1)] ELSE NoMatch
classRegex(s) ==
    LET hits == {p \in DOMAIN s : ClassAt(s, p).ok}
    IN  IF hits = {} THEN NoMatch ELSE ClassAt(s, Min(hits))

-----------------------------------------------------------------------------
(* cleanXMLTags                                                            *)

\* first position >= p of s holding ch, Len(s) + 1 when there is none
RECURSIVE FirstOf(_, _, _)
FirstOf(s, p, ch) == IF p <= Len(s) /\ s[p] # ch THEN FirstOf(s, p + 1, ch) ELSE p

\* regexp.MustCompile(pat).ReplaceAllString(s, rep) for a literal pattern
RECURSIVE ReplaceLiteral(_, _, _, _)
ReplaceLiteral(s, p, pat, rep) ==
    IF p > Len(s) THEN <<>>
    ELSE IF MatchAt(s, p, pat)
         THEN rep \o ReplaceLiteral(s, p + Len(pat), pat, rep)
         ELSE <<s[p]>> \o ReplaceLiteral(s, p + 1, pat, rep)

\* <param name="[^"]+">([^<]*)</param> at position p
ParamAt(s, p) ==
    LET a == p + Len(PARAM_OPEN)
        b == FirstOf(s, a, "\"")
        c == b + Len(PARAM_MID)
        d == FirstOf(s, c, "<")
    IN  IF /\ MatchAt(s, p, PARAM_OPEN) /\ b > a /\ MatchAt(s, b, PARAM_MID)
           /\ MatchAt(s, d, PARAM_CLOSE)
        THEN [ok |-> TRUE, m1 |-> Sub(s, c, d - 1), end |-> d + Len(PARAM_CLOSE)]
        ELSE NoMatch

\* <returns>([^<]*)</returns> at position p
ReturnsAt(s, p) ==
    LET a == p + Len(RETURNS_OPEN)
        d == FirstOf(s, a, "<")
    IN  IF MatchAt(s, p, RETURNS_OPEN) /\ MatchAt(s, d, RETURNS_CLOSE)
        THEN [ok |-> TRUE, m1 |-> Sub(s, a, d - 1), end |-> d + Len(RETURNS_CLOSE)]
        ELSE NoMatch

RECURSIVE ReplaceParam(_, _)
ReplaceParam(s, p) ==
    IF p > Len(s) THEN <<>>
    ELSE IF ParamAt(s, p).ok
         THEN PARAM_LABEL \o ParamAt(s, p).m1 \o ReplaceParam(s, ParamAt(s, p).end)
         ELSE <<s[p]>> \o ReplaceParam(s, p + 1)

RECURSIVE ReplaceReturns(_, _)
ReplaceReturns(s, p) ==
    IF p > Len(s) THEN <<>>
    ELSE IF ReturnsAt(s, p).ok
         THEN RETURNS_LABEL \o ReturnsAt(s, p).m1 \o ReplaceReturns(s, ReturnsAt(s, p).end)
         ELSE <<s[p]>> \o ReplaceReturns(s, p + 1)

cleanXMLTags(s) ==
    LET s1 == ReplaceLiteral(s, 1, SUMMARY_OPEN, <<>>)
        s2 == ReplaceLiteral(s1, 1, SUMMARY_CLOSE, <<>>)
        s3 == ReplaceParam(s2, 1)
        s4 == ReplaceReturns(s3, 1)
    IN  TrimSpace(s4)

-----------------------------------------------------------------------------
(* extractKeywords and splitCamelCase                                      *)

\* len(word): Go counts bytes; the CJK characters of the model take 3 each
CJKChars == {"U+53C2", "U+6570", "U+8FD4", "U+56DE"}
RECURSIVE ByteLen(_)
ByteLen(s) ==
    IF s = <<>> THEN 0
    ELSE (IF Head(s) \in CJKChars THEN 3 ELSE 1) + ByteLen(Tail(s))

\* the loop of splitCamelCase from character k on, with the words collected
\* so far and the word being built
RECURSIVE SplitLoop(_, _, _, _)
SplitLoop(s, k, words, currentWord) ==
    IF k > Len(s)
    THEN IF Len(currentWord) > 0 THEN Append(words, ToLower(currentWord)) ELSE words
    ELSE IF k > 1 /\ s[k] \in UpperChars /\ Len(currentWord) > 0
         THEN SplitLoop(s, k + 1, Append(words, ToLower(currentWord)), <<s[k]>>)
         ELSE SplitLoop(s, k + 1, words, Append(currentWord, s[k]))

splitCamelCase(s) == SplitLoop(s, 1, <<>>, <<>>)

\* strings.Join(elems, " ")
RECURSIVE Join(_)
Join(elems) ==
    IF elems = <<>> THEN <<>>
    ELSE IF Len(elems) = 1 THEN elems[1]
    ELSE elems[1] \o <<" ">> \o Join(Tail(elems))

\* strings.Fields(s): the maximal runs of non-space characters, in order
RECURSIVE FieldsLoop(_, _, _, _)
FieldsLoop(s, k, out, cur) ==
    IF k > Len(s)
    THEN IF cur # <<>> THEN Append(out, cur) ELSE out
    ELSE IF IsSpace(s[k])
         THEN FieldsLoop(s, k + 1, IF cur # <<>> THEN Append(out, cur) ELSE out, <<>>)
         ELSE FieldsLoop(s, k + 1, out, Append(cur, s[k]))
Fields(s) == FieldsLoop(s, 1, <<>>, <<>>)

\* the loop over words: a word of more than one byte is appended, lowercased
KeepWord(word) == ByteLen(word) > 1
CommentWord(word) == ToLower(word)
RECURSIVE WordsLoop(_, _, _)
WordsLoop(words, k, keywords) ==
    IF k > Len(words) THEN keywords
    ELSE WordsLoop(words, k + 1,
                   IF KeepWord(words[k]) THEN Append(keywords, CommentWord(words[k]))
                   ELSE keywords)

\* the deduplication loop: keywordMap is the set of keywords already kept
RECURSIVE UniqueLoop(_, _, _, _)
UniqueLoop(keywords, k, keywordMap, uniqueKeywords) ==
    IF k > Len(keywords) THEN uniqueKeywords
    ELSE IF keywords[k] \notin keywordMap /\ keywords[k] # <<>>
         THEN UniqueLoop(keywords, k + 1, keywordMap \cup {keywords[k]},
                         Append(uniqueKeywords, keywords[k]))
         ELSE UniqueLoop(keywords, k + 1, keywordMap, uniqueKeywords)

extractKeywords(funcName, comments) ==
    LET funcWords == splitCamelCase(funcName)
        commentText == Join(comments)
        words == Fields(commentText)
        keywords == WordsLoop(words, 1, funcWords)
    IN  UniqueLoop(keywords, 1, {}, <<>>)

-----------------------------------------------------------------------------
(* UnityParser.ParseFile                                                   *)

unityEvents ==
    {"Awake", "Start", "Update", "FixedUpdate",
     "LateUpdate", "OnEnable", "OnDisable", "OnDestroy",
     "OnCollisionEnter", "OnCollisionExit", "OnCollisionStay",
     "OnTriggerEnter", "OnTriggerExit", "OnTriggerStay",
     "OnMouseDown", "OnMouseUp", "OnMouseEnter", "OnMouseExit",
     "OnGUI", "OnApplicationQuit", "OnApplicationPause",
     "OnBecameVisible", "OnBecameInvisible"}

\* A path is the sequence of its segments.
\* filepath.Base
Base(path) == IF path = <<>> THEN "." ELSE path[Len(path)]
\* filepath.Rel(basepath, targpath) for two clean paths of the same kind
CommonLen(a, b) ==
    Max({n \in 0..Len(a) : n <= Len(b) /\ \A k \in 1..n : a[k] = b[k]})
Rel(basepath, targpath) ==
    LET n == CommonLen(basepath, targpath)
    IN  [k \in 1..(Len(basepath) - n) |-> ".."] \o Sub(targpath, n + 1, Len(targpath))

\* a slice header: the number of its backing array (0 for nil) and its
\* length; every slice of the program starts at the first cell of its array
NilSlice == [ptr |-> 0, len |-> 0]

\* strings.Join(lines, "\n"): the content that strings.Split cut into lines
RECURSIVE Content(_)
Content(ls) ==
    IF ls = <<>> THEN <<>>
    ELSE IF Len(ls) = 1 THEN ls[1]
    ELSE ls[1] \o <<"\n">> \o Content(Tail(ls))

\* the test that sends a line to the attribute branch
IsAttributeLine(trimmed) == HasPrefix(trimmed, <<"[">>) /\ HasSuffix(trimmed, <<"]">>)

\* variant of isCoroutine: the wrong capture group (the name) is searched
isCoroutineOfName(match) == Contains(match.m3, IENUMERATOR_)

\* isCoroutine := strings.Contains(returnType, "IEnumerator"), returnType := match[2]
isCoroutine(match) == Contains(match.m2, IENUMERATOR_)

\* variant of isUnityEvent: the first letter is compared case-insensitively
isUnityEventAnyCase(match) ==
    LET c == match.m3[1]
        up == IF c \in LowerChars
              THEN UpperSeq[CHOOSE k \in DOMAIN LowerSeq : LowerSeq[k] = c] ELSE c
    IN  Str(<<up>> \o Tail(match.m3)) \in unityEvents

\* isUnityEvent := p.unityEvents[funcName], funcName := match[3]
isUnityEvent(match) == Str(match.m3) \in unityEvents

\* variant of ClearsCache: a line that contains a brace clears too
ClearsCacheDespiteBrace(trimmed) ==
    /\ trimmed # <<>>
    /\ ~HasPrefix(trimmed, SLASH2)
    /\ ~HasPrefix(trimmed, <<"[">>)

\* the condition under which the final else-if branch clears both accumulators
ClearsCache(trimmed) ==
    /\ trimmed # <<>>
    /\ ~HasPrefix(trimmed, SLASH2)
    /\ ~HasPrefix(trimmed, <<"[">>)
    /\ ~Contains(trimmed, <<"{">>)
    /\ ~Contains(trimmed, <<"}">>)

\* the FunctionInfo literal built for a matched declaration line
FunctionInfo(filePath, relativePath, ns, cls, line, match, comments, attributes) ==
    [FileName     |-> Base(filePath),
     FilePath     |-> filePath,
     RelativePath |-> relativePath,
     Namespace    |-> Str(ns),
     ClassName    |-> Str(cls),
     FuncName     |-> Str(match.m3),
     Signature    |-> Str(TrimSpace(line)),
     Comments     |-> StrAll(comments),
     Attributes   |-> StrAll(attributes),
     IsUnityEvent |-> isUnityEvent(match),
     IsCoroutine  |-> isCoroutine(match),
     Keywords     |-> StrAll(extractKeywords(match.m3, comments))]

\* variant of AfterAttach: the accumulator keeps what was attached
KeptAfterAttach(accumulator) == accumulator

\* currentComments = nil, currentAttributes = nil after the record is appended
AfterAttach(accumulator) == <<>>

\* One iteration of the loop over lines: the accumulators and the record list
\* after the line, from their values before it.  emitted tells whether the
\* line produced a record.
LineStep(st, line, filePath, relativePath, ns, cls) ==
    LET trimmed == TrimSpace(line)
        same == [comments |-> st.comments, attributes |-> st.attributes,
                 functions |-> st.functions, emitted |-> FALSE]
    IN  IF IsAttributeLine(trimmed)
        THEN IF attributeRegex(trimmed).ok
             THEN [same EXCEPT !.attributes = Append(@, attributeRegex(trimmed).m1)]
             ELSE same
        ELSE IF HasPrefix(trimmed, SLASH3)
        THEN LET comment == cleanXMLTags(TrimSpace(TrimPrefix(trimmed, SLASH3)))
             IN  IF comment # <<>>
                 THEN [same EXCEPT !.comments = Append(@, comment)]
                 ELSE same
        ELSE IF HasPrefix(trimmed, SLASH2)
        THEN LET comment == TrimSpace(TrimPrefix(trimmed, SLASH2))
             IN  IF comment # <<>> /\ ~HasPrefix(comment, <<"/">>)
                 THEN [same EXCEPT !.comments = Append(@, comment)]
                 ELSE same
        ELSE IF functionRegex(line).ok
        THEN [comments |-> AfterAttach(st.comments),
              attributes |-> AfterAttach(st.attributes),
              functions |-> Append(st.functions,
                                   FunctionInfo(filePath, relativePath, ns, cls, line,
                                                functionRegex(line),
                                                st.comments, st.attributes)),
              emitted |-> TRUE]
        ELSE IF ClearsCache(trimmed)
        THEN [same EXCEPT !.comments = <<>>, !.attributes = <<>>]
        ELSE same

\* variant of ClassOf: the last class of the file is taken
ClassOfLastMatch(content) ==
    LET hits == {p \in DOMAIN content : ClassAt(content, p).ok}
    IN  IF hits = {} THEN <<>> ELSE ClassAt(content, Max(hits)).m1

\* namespace and class of a file: the first match in the whole content
NamespaceOf(content) ==
    IF namespaceRegex(content).ok THEN namespaceRegex(content).m1 ELSE <<>>
ClassOf(content) ==
    IF classRegex(content).ok THEN classRegex(content).m1 ELSE <<>>

\* ParseFile on a readable file, as a function of its lines: the returned records
RECURSIVE ParseLoop(_, _, _, _, _, _, _)
ParseLoop(ls, k, st, filePath, relativePath, ns, cls) ==
    IF k > Len(ls) THEN st.functions
    ELSE ParseLoop(ls, k + 1,
                   LineStep(st, ls[k], filePath, relativePath, ns, cls),
                   filePath, relativePath, ns, cls)
ParseFile(ls, filePath, rootPath) ==
    ParseLoop(ls, 1, [comments |-> <<>>, attributes |-> <<>>, functions |-> <<>>],
              filePath, Rel(rootPath, filePath),
              NamespaceOf(Content(ls)), ClassOf(Content(ls)))

-----------------------------------------------------------------------------
(* Input lines                                                             *)

\* a documentation comment:  /// Moves the player.
LnDoc == <<"/","/","/"," ","M","o","v","e","s"," ","t","h","e"," ","p","l","a","y","e","r",".">>
\* a line comment naming the marker type and a callback:  // IEnumerator Update
LnComment == <<"/","/"," ","I","E","n","u","m","e","r","a","t","o","r"," ","U","p","d","a","t","e">>
\* an annotation line:  [Header]
LnHeader == <<"[","H","e","a","d","e","r","]">>
\* a declaration at column 0 with no modifier:  void MovePlayer() { }
LnDeclCol0 == <<"v","o","i","d"," ","M","o","v","e","P","l","a","y","e","r","(",")"," ","{"," ","}">>
\* a coroutine named like a lifecycle callback:    public IEnumerator Start()
LnCoroutine == <<" "," ","p","u","b","l","i","c"," ","I","E","n","u","m","e","r","a","t","o","r"," ","S","t","a","r","t","(",")">>
\* an ordinary function; the marker type is a parameter type only:    void update(IEnumerator e)
LnPlainDecl == <<" "," ","v","o","i","d"," ","u","p","d","a","t","e","(","I","E","n","u","m","e","r","a","t","o","r"," ","e",")">>
\* a white-space-only line:  '  '
LnBlank == <<" "," ">>
\* a brace-only line:  {
LnBrace == <<"{">>
\* a plain statement:    speed = 1;
LnStmt == <<" "," ","s","p","e","e","d"," ","="," ","1",";">>
\* a statement that contains a brace among other text:    if (hit) {
LnBraceStmt == <<" "," ","i","f"," ","(","h","i","t",")"," ","{">>
\* an attributed field: starts with "[" but does not end with "]":  [Tip] int x;
LnAttrField == <<"[","T","i","p","]"," ","i","n","t"," ","x",";">>
\* an attributed declaration whose trailing comment ends with "]":  [A] void F() // [1]
LnAttrDecl == <<"[","A","]"," ","v","o","i","d"," ","F","(",")"," ","/","/"," ","[","1","]">>

\* class declarations:  public class Enemy : MonoBehaviour  /  public class Menu
LnClassEnemy == <<"p","u","b","l","i","c"," ","c","l","a","s","s"," ","E","n","e","m","y"," ",":"," ","M","o","n","o","B","e","h","a","v","i","o","u","r">>
LnClassMenu == <<"p","u","b","l","i","c"," ","c","l","a","s","s"," ","M","e","n","u">>

LineCatalog ==
    {LnDoc, LnComment, LnHeader, LnDeclCol0,
     LnCoroutine, LnPlainDecl, LnBlank, LnBrace,
     LnStmt, LnBraceStmt, LnAttrField, LnAttrDecl}

\* longest file, in lines
MaxLines == 3

\* the line lists strings.Split can return: at least one line
RECURSIVE SeqsUpTo(_, _)
SeqsUpTo(S, n) ==
    IF n = 0 THEN {<<>>}
    ELSE LET shorter == SeqsUpTo(S, n - 1)
         IN  shorter \cup {Append(s, x) : s \in {t \in shorter : Len(t) = n - 1}, x \in S}
FileLines == SeqsUpTo(LineCatalog, MaxLines) \ {<<>>}

\* the file parsed by the line-scan specification, and the project root
ParsedPath == <<"proj", "Assets", "Scripts", "Player.cs">>
RootPath   == <<"proj">>

-----------------------------------------------------------------------------
(* The line scan of ParseFile, one action per loop iteration               *)

Idle ==
    /\ kwName = <<>> /\ kwComments = <<>> /\ kwResult = <<>>
    /\ statResult = "none" /\ entries = <<>> /\ walkPos = 0
    /\ allFunctions = <<>> /\ parsedFiles = <<>> /\ warnings = <<>>
    /\ scanErr = "none" /\ exitCode = "none" /\ outputWritten = FALSE
    /\ lines = <<>> /\ i = 0
    /\ currentComments = <<>> /\ currentAttributes = <<>>
    /\ currentNamespace = <<>> /\ currentClass = <<>>
    /\ functions = <<>> /\ emittedAt = <<>>
    /\ document = <<>> /\ mapOrder = [categories |-> <<>>, classes |-> <<>>]
    /\ run = 1 /\ previousDocument = <<>>
    /\ stringArrays = <<>> /\ recordArrays = <<>>
    /\ commentsSlice = NilSlice /\ attributesSlice = NilSlice
    /\ functionsSlice = NilSlice /\ allFunctionsSlice = NilSlice

InitParse == pc = "start" /\ Idle

\* ParseFile up to the loop: the file is read and split, namespace and class
\* are resolved on the whole content
ParseFileBegin ==
    /\ pc = "start"
    /\ \E ls \in FileLines :
        /\ lines' = ls
        /\ currentNamespace' = NamespaceOf(Content(ls))
        /\ currentClass' = ClassOf(Content(ls))
    /\ i' = 1
    /\ currentComments' = <<>>
    /\ currentAttributes' = <<>>
    /\ functions' = <<>>
    /\ emittedAt' = <<>>
    /\ pc' = "scan"
    /\ UNCHANGED <<kwVars, scanVars, renderVars, runVars, memVars>>

\* one iteration of the loop, on lines[i]
ParseLine ==
    /\ pc = "scan"
    /\ i <= Len(lines)
    /\ LET st == LineStep([comments |-> currentComments,
                           attributes |-> currentAttributes,
                           functions |-> functions],
                          lines[i], ParsedPath, Rel(RootPath, ParsedPath),
                          currentNamespace, currentClass)
       IN  /\ currentComments' = st.comments
           /\ currentAttributes' = st.attributes
           /\ functions' = st.functions
           /\ emittedAt' = IF st.emitted THEN Append(emittedAt, i) ELSE emittedAt
    /\ i' = i + 1
    /\ UNCHANGED <<pc, lines, currentNamespace, currentClass, kwVars, scanVars,
                   renderVars, runVars, memVars>>

\* the loop ends and ParseFile returns functions
ParseReturn ==
    /\ pc = "scan"
    /\ i > Len(lines)
    /\ pc' = "returned"
    /\ UNCHANGED <<parseVars, kwVars, scanVars, renderVars, runVars, memVars>>

NextParse == ParseFileBegin \/ ParseLine \/ ParseReturn

SpecParse == InitParse /\ [][NextParse]_vars

-----------------------------------------------------------------------------
(* Properties of the line scan                                             *)

\* line shapes, as the claims word them
IsBlankLine(line) == TrimSpace(line) = <<>>
IsBraceOnlyLine(line) ==
    /\ TrimSpace(line) # <<>>
    /\ \A k \in DOMAIN line : line[k] \in {"{", "}"} \/ IsSpace(line[k])
IsCommentLine(line) == HasPrefix(TrimSpace(line), SLASH2)
IsBracketDelimited(line) ==
    HasPrefix(TrimSpace(line), <<"[">>) /\ HasSuffix(TrimSpace(line), <<"]">>)
IsDeclarationLine(line) == functionRegex(line).ok
\* a non-blank line that is no comment, no bracket-delimited annotation, no
\* declaration and no brace-only line
IsUnrelatedLine(line) ==
    /\ ~IsBlankLine(line)
    /\ ~IsCommentLine(line)
    /\ ~IsBracketDelimited(line)
    /\ ~IsDeclarationLine(line)
    /\ ~IsBraceOnlyLine(line)

\* the lines of the file processed so far
Processed == IF pc \in {"scan", "returned"} THEN 1..(i - 1) ELSE {}
\* the record emitted for line n, if any
RecordsOfLine(n) == {k \in DOMAIN functions : emittedAt[k] = n}

\* C1: the number of records ParseFile has emitted equals the number of lines
\* processed so far that match the function-declaration pattern, whatever
\* else the line looks like.
C1_RecordCountEqualsMatchedLines ==
    Len(functions) = Cardinality({n \in Processed : IsDeclarationLine(lines[n])})

\* C2: a non-blank line that is no comment, no bracket-delimited annotation,
\* no declaration and no brace-only line resets both accumulators, and a
\* declaration that directly follows it gets empty comments and annotations.
C2_UnrelatedLineClearsAssociation ==
    /\ \A n \in Processed :
          (n = i - 1 /\ IsUnrelatedLine(lines[n]))
              => (currentComments = <<>> /\ currentAttributes = <<>>)
    /\ \A k \in DOMAIN functions :
          (emittedAt[k] > 1 /\ IsUnrelatedLine(lines[emittedAt[k] - 1]))
              => (functions[k].Comments = <<>> /\ functions[k].Attributes = <<>>)

\* the lines of ls that are neither blank nor brace-only
RECURSIVE WithoutSeparators(_)
WithoutSeparators(ls) ==
    IF ls = <<>> THEN <<>>
    ELSE IF IsBlankLine(Head(ls)) \/ IsBraceOnlyLine(Head(ls))
         THEN WithoutSeparators(Tail(ls))
         ELSE <<Head(ls)>> \o WithoutSeparators(Tail(ls))
\* what each record of a list has attached
Attached(fns) ==
    [k \in DOMAIN fns |-> [FuncName   |-> fns[k].FuncName,
                           Comments   |-> fns[k].Comments,
                           Attributes |-> fns[k].Attributes]]

\* C3: blank lines and brace-only lines leave the accumulators untouched: the
\* records of a file have the comments and annotations they have when every
\* blank and brace-only line is taken out of the file.
C3_SeparatorsKeepAssociation ==
    pc = "returned" =>
        Attached(functions)
            = Attached(ParseFile(WithoutSeparators(lines), ParsedPath, RootPath))

\* C3 witness: a record kept the comment of line 1 across a brace-only line
C3_Witness ==
    /\ pc = "returned"
    /\ \E k \in DOMAIN functions :
          /\ emittedAt[k] = 3
          /\ lines[2] = LnBrace /\ IsBraceOnlyLine(lines[2])
          /\ functions[k].Comments = <<"Moves the player.">>

\* C4: a line made of a type, an identifier and a parameter list, with no
\* modifier and no leading white space, yields one record named after the
\* identifier, carrying the documentation comment directly above it.
C4_UnmodifiedDeclarationRecognized ==
    \A n \in Processed :
        lines[n] = LnDeclCol0 =>
            /\ Cardinality(RecordsOfLine(n)) = 1
            /\ \A k \in RecordsOfLine(n) :
                  /\ functions[k].FuncName = "MovePlayer"
                  /\ (n = 2 /\ lines[1] = LnDoc)
                        => functions[k].Comments = <<"Moves the player.">>

\* C7: a record is flagged as lifecycle callback exactly when its name is one
\* of the reserved callback names, compared case-sensitively.
C7_LifecycleFlagIffReservedName ==
    \A k \in DOMAIN functions :
        /\ functions[k].IsUnityEvent <=> functions[k].FuncName \in unityEvents
        /\ functions[k].FuncName = "Start" => functions[k].IsUnityEvent
        /\ functions[k].FuncName = "update" => ~functions[k].IsUnityEvent

\* C7 witness: a reserved name and a name differing from one in case only,
\* both emitted, the first one below a comment that names another callback
C7_Witness ==
    /\ pc = "returned"
    /\ \E j, k \in DOMAIN functions :
          /\ functions[j].FuncName = "Start" /\ functions[j].IsUnityEvent
          /\ functions[j].Comments # <<>>
          /\ functions[k].FuncName = "update" /\ ~functions[k].IsUnityEvent

\* C8: a record is flagged as coroutine exactly when the return type captured
\* from its declaration line contains IEnumerator; the parameter list, the
\* name and the comments do not count.
C8_CoroutineFlagIffReturnType ==
    \A k \in DOMAIN functions :
        LET line == lines[emittedAt[k]]
        IN  /\ functions[k].IsCoroutine
                <=> Contains(functionRegex(line).m2, IENUMERATOR_)
            /\ line = LnCoroutine => functions[k].IsCoroutine
            /\ line = LnPlainDecl => ~functions[k].IsCoroutine

\* C8 witness: a coroutine, and a function that has IEnumerator both in its
\* parameter list and in the comment above it
C8_Witness ==
    /\ pc = "returned"
    /\ \E j, k \in DOMAIN functions :
          /\ lines[emittedAt[j]] = LnCoroutine /\ functions[j].IsCoroutine
          /\ lines[emittedAt[k]] = LnPlainDecl /\ ~functions[k].IsCoroutine
          /\ functions[k].Comments = <<"IEnumerator Update">>

\* what a comment line or an annotation line adds to its accumulator
CommentsOfLine(line) ==
    LET trimmed == TrimSpace(line)
        text == IF HasPrefix(trimmed, SLASH3)
                THEN cleanXMLTags(TrimSpace(TrimPrefix(trimmed, SLASH3)))
                ELSE TrimSpace(TrimPrefix(trimmed, SLASH2))
    IN  IF ~IsBracketDelimited(line) /\ IsCommentLine(line) /\ text # <<>>
        THEN <<Str(text)>> ELSE <<>>
AnnotationsOfLine(line) ==
    IF IsBracketDelimited(line) /\ attributeRegex(TrimSpace(line)).ok
    THEN <<Str(attributeRegex(TrimSpace(line)).m1)>> ELSE <<>>
\* the contributions of lines[from..to], in order
RECURSIVE CommentsBetween(_, _)
CommentsBetween(from, to) ==
    IF from > to THEN <<>>
    ELSE CommentsOfLine(lines[from]) \o CommentsBetween(from + 1, to)
RECURSIVE AnnotationsBetween(_, _)
AnnotationsBetween(from, to) ==
    IF from > to THEN <<>>
    ELSE AnnotationsOfLine(lines[from]) \o AnnotationsBetween(from + 1, to)
IsSuffix(a, b) == Len(a) <= Len(b) /\ a = SubSeq(b, Len(b) - Len(a) + 1, Len(b))
\* the line of the record before record k, 0 for the first record
EmittedBefore(k) == IF k = 1 THEN 0 ELSE emittedAt[k - 1]

\* C13: right after a line has produced a record both accumulators are empty;
\* so what a record carries comes from the comment and annotation lines
\* between the record before it and itself (each such line reaches one record
\* at most), and a record whose line follows another record's line with no
\* comment or annotation line in between carries nothing.
C13_AccumulatorsEmptyAfterRecord ==
    /\ (pc = "scan" /\ emittedAt # <<>> /\ emittedAt[Len(emittedAt)] = i - 1)
          => (currentComments = <<>> /\ currentAttributes = <<>>)
    /\ \A k \in DOMAIN functions :
          LET from == EmittedBefore(k) + 1
              to == emittedAt[k] - 1
          IN  /\ IsSuffix(functions[k].Comments, CommentsBetween(from, to))
              /\ IsSuffix(functions[k].Attributes, AnnotationsBetween(from, to))
              /\ (k > 1 /\ \A n \in from..to :
                              ~IsCommentLine(lines[n]) /\ ~IsBracketDelimited(lines[n]))
                    => (functions[k].Comments = <<>> /\ functions[k].Attributes = <<>>)

\* C13 witness: a documented declaration directly followed by a second
\* declaration, which carries nothing
C13_Witness ==
    /\ pc = "returned"
    /\ lines = <<LnDoc, LnCoroutine, LnPlainDecl>>
    /\ Len(functions) = 2
    /\ functions[1].Comments = <<"Moves the player.">>
    /\ functions[2].Comments = <<>> /\ functions[2].Attributes = <<>>

-----------------------------------------------------------------------------
(* extractKeywords as an operation on chosen arguments                     *)

NmMovePlayer == <<"M","o","v","e","P","l","a","y","e","r">>
NmMoveTo == <<"m","o","v","e","T","o">>
NmHP == <<"H","P">>
NmA == <<"A">>
NmPlayer == <<"p","l","a","y","e","r">>
KwNames == {NmMovePlayer, NmMoveTo, NmHP, NmA, NmPlayer}

CmMoves == <<"M","o","v","e","s"," ","t","h","e"," ","p","l","a","y","e","r",".">>
CmA == <<"a">>
CmAb == <<"a","b">>
CmMixed == <<"M","o","v","e"," ","a"," ","\t","B">>
CmPlayer == <<"t","h","e"," ","P","l","a","y","e","r"," ","p","l","a","y","e","r">>
CmHP == <<"t","o"," "," ","H","P"," ","h","p">>
\* a comment of two tokens, the first a single CJK character (3 bytes)
CmCJK == <<"U+53C2", " ", "U+53C2", "U+6570">>
KwCommentLines == {CmMoves, CmA, CmAb, CmMixed, CmPlayer, CmHP, CmCJK}

\* longest comment list passed to extractKeywords
MaxComments == 2

InitKw == pc = "start" /\ Idle

\* keywords := extractKeywords(funcName, currentComments)
ExtractKeywordsCall ==
    /\ pc = "start"
    /\ \E name \in KwNames, comments \in SeqsUpTo(KwCommentLines, MaxComments) :
        /\ kwName' = name
        /\ kwComments' = comments
        /\ kwResult' = extractKeywords(name, comments)
    /\ pc' = "kwDone"
    /\ UNCHANGED <<parseVars, scanVars, renderVars, runVars, memVars>>

NextKw == ExtractKeywordsCall

SpecKw == InitKw /\ [][NextKw]_vars

-----------------------------------------------------------------------------
(* Properties of extractKeywords                                           *)

RECURSIVE SortedSeq(_)
SortedSeq(S) == IF S = {} THEN <<>> ELSE <<Min(S)>> \o SortedSeq(S \ {Min(S)})

\* the white-space-delimited tokens of the comment lines joined by one space
TokenStarts(text) ==
    {k \in DOMAIN text : ~IsSpace(text[k]) /\ (k = 1 \/ IsSpace(text[k - 1]))}
TokenFrom(text, c) ==
    Sub(text, c, Min({k \in c..(Len(text) + 1) : k > Len(text) \/ IsSpace(text[k])}) - 1)
RefTokens(comments) ==
    LET text == Join(comments)
        starts == SortedSeq(TokenStarts(text))
    IN  [n \in DOMAIN starts |-> TokenFrom(text, starts[n])]

\* the segments of a name cut before every uppercase letter but the first
\* character, lowercased
CutsOf(name) ==
    IF name = <<>> THEN {} ELSE {1} \cup {k \in 2..Len(name) : name[k] \in UpperChars}
RefSegments(name) ==
    LET cuts == SortedSeq(CutsOf(name))
    IN  [n \in DOMAIN cuts |->
            ToLower(Sub(name, cuts[n],
                        Min({k \in CutsOf(name) \cup {Len(name) + 1} : k > cuts[n]}) - 1))]

\* a sequence with every later duplicate removed
RefDedup(seq) ==
    LET firsts == SortedSeq({k \in DOMAIN seq : \A j \in 1..(k - 1) : seq[j] # seq[k]})
    IN  [n \in DOMAIN firsts |-> seq[firsts[n]]]

\* the tokens of more than one character, lowercased, in order
RECURSIVE SelectLong(_)
SelectLong(seq) ==
    IF seq = <<>> THEN <<>>
    ELSE IF Len(Head(seq)) > 1
         THEN <<ToLower(Head(seq))>> \o SelectLong(Tail(seq))
         ELSE SelectLong(Tail(seq))

\* C5: the keyword list holds no empty string and no two entries equal up to
\* case; a comment token of length 1 (one character) is in the list only if
\* the name supplies it, and every comment token of length 2 or more is in
\* the list, lowercased.
C5_KeywordsWellFormed ==
    pc = "kwDone" =>
        /\ \A k \in DOMAIN kwResult : kwResult[k] # <<>>
        /\ \A j, k \in DOMAIN kwResult :
              j # k => ToLower(kwResult[j]) # ToLower(kwResult[k])
        /\ \A w \in Range(RefTokens(kwComments)) :
              /\ Len(w) = 1 =>
                    (\A v \in {w, ToLower(w)} :
                        v \in Range(kwResult) => v \in Range(RefSegments(kwName)))
              /\ Len(w) >= 2 => ToLower(w) \in Range(kwResult)

\* C6: extractKeywords returns the lowercased camel-case segments of the name
\* followed by the lowercased comment tokens of length > 1, later duplicates
\* removed and first-seen order kept; the name's segments come first.
C6_KeywordsEqualReference ==
    pc = "kwDone" =>
        /\ kwResult = RefDedup(RefSegments(kwName) \o SelectLong(RefTokens(kwComments)))
        /\ (kwName = NmMovePlayer /\ kwComments = <<CmMoves>>)
              => StrAll(kwResult) = <<"move", "player", "moves", "the", "player.">>
        /\ LET n == Len(RefDedup(RefSegments(kwName)))
           IN  SubSeq(kwResult, 1, n) = RefDedup(RefSegments(kwName))

-----------------------------------------------------------------------------
(* GenerateUnityMarkdown                                                   *)

\* The records hold TLA+ strings; the renderer splits, compares and rewrites
\* them character by character.  Texts lists the character sequences behind
\* the strings the renderer handles, and Chars is the inverse of Str on it.
OTHER_ == <<"U+5176", "U+4ED6">>
GLOBAL_ == <<"U+5168", "U+5C40", "U+51FD", "U+6570">>
TxAssets == <<"A","s","s","e","t","s">>
TxScripts == <<"S","c","r","i","p","t","s">>
TxUI == <<"U","I">>
TxPlayer == <<"P","l","a","y","e","r">>
TxEnemy == <<"E","n","e","m","y">>
TxMoves == <<"M","o","v","e","s"," ","t","h","e"," ","p","l","a","y","e","r",".">>
TxNote == <<"I","E","n","u","m","e","r","a","t","o","r"," ","U","p","d","a","t","e">>
TxMenu == <<"M","e","n","u">>
Texts == {<<>>, OTHER_, GLOBAL_, TxAssets, TxScripts, TxUI,
          TxPlayer, TxEnemy, TxMenu, TxMoves, TxNote}
Chars(t) == CHOOSE s \in Texts : Str(s) = t

\* The bytes of a character in UTF-8: Go compares strings byte by byte.
\* the characters of codes 32..95 and 97..126
AsciiLow ==
    <<" ","!","\"","#","$","%","&","'","(",")","*","+",",","-",".","/",
      "0","1","2","3","4","5","6","7","8","9",":",";","<","=",">","?",
      "@","A","B","C","D","E","F","G","H","I","J","K","L","M","N","O",
      "P","Q","R","S","T","U","V","W","X","Y","Z","[","\\","]","^","_">>
AsciiHigh ==
    <<"a","b","c","d","e","f","g","h","i","j","k","l","m","n","o",
      "p","q","r","s","t","u","v","w","x","y","z","{","|","}","~">>
Utf8(c) ==
    IF c = "U+5176" THEN <<229, 133, 182>>
    ELSE IF c = "U+4ED6" THEN <<228, 187, 150>>
    ELSE IF c = "U+5168" THEN <<229, 133, 168>>
    ELSE IF c = "U+5C40" THEN <<229, 177, 128>>
    ELSE IF c = "U+51FD" THEN <<229, 135, 189>>
    ELSE IF c = "U+6570" THEN <<230, 149, 176>>
    ELSE IF c = "U+53C2" THEN <<229, 143, 130>>
    ELSE IF c = "U+8FD4" THEN <<232, 191, 148>>
    ELSE IF c = "U+56DE" THEN <<229, 155, 158>>
    ELSE IF c = "\t" THEN <<9>>
    ELSE IF c = "\n" THEN <<10>>
    ELSE IF c \in Range(AsciiHigh)
    THEN <<96 + (CHOOSE k \in DOMAIN AsciiHigh : AsciiHigh[k] = c)>>
    ELSE <<31 + (CHOOSE k \in DOMAIN AsciiLow : AsciiLow[k] = c)>>
RECURSIVE Bytes(_)
Bytes(s) == IF s = <<>> THEN <<>> ELSE Utf8(Head(s)) \o Bytes(Tail(s))

\* a < b for two Go strings given as byte sequences
RECURSIVE BytesLess(_, _)
BytesLess(a, b) ==
    IF b = <<>> THEN FALSE
    ELSE IF a = <<>> THEN TRUE
    ELSE IF Head(a) # Head(b) THEN Head(a) < Head(b)
    ELSE BytesLess(Tail(a), Tail(b))
StringLess(x, y) == BytesLess(Bytes(Chars(x)), Bytes(Chars(y)))

\* variant of SortStrings: the keys are left in the order the map gave them
KeysAsIterated(keys) == keys

\* sort.Strings(keys): ascending byte order
RECURSIVE InsertString(_, _)
InsertString(sorted, x) ==
    IF sorted = <<>> THEN <<x>>
    ELSE IF StringLess(x, Head(sorted)) THEN <<x>> \o sorted
    ELSE <<Head(sorted)>> \o InsertString(Tail(sorted), x)
RECURSIVE SortLoop(_, _)
SortLoop(keys, sorted) ==
    IF keys = <<>> THEN sorted
    ELSE SortLoop(Tail(keys), InsertString(sorted, Head(keys)))
SortStrings(keys) == SortLoop(keys, <<>>)

\* all orders in which a range statement can visit the keys S of a map
RECURSIVE Perms(_)
Perms(S) ==
    IF S = {} THEN {<<>>}
    ELSE UNION {{<<x>> \o p : p \in Perms(S \ {x})} : x \in S}

\* the category of a record: parts := strings.Split(fn.RelativePath, sep); a
\* path is held as its segments, and the empty path splits into one part
CategoryOf(fn) ==
    LET parts == IF fn.RelativePath = <<>> THEN <<"">> ELSE fn.RelativePath
    IN  IF Len(parts) > 1 THEN parts[1] ELSE Str(OTHER_)

\* variant of ClassKeyOf: an empty class name is used as it is
ClassKeyAsWritten(fn) == fn.ClassName

\* the key of a record in classMap
ClassKeyOf(fn) == IF fn.ClassName = "" THEN Str(GLOBAL_) ELSE fn.ClassName

\* categoryMap[cat] and classMap[className]: the records appended under a key
categoryMap(funcs, cat) == SelectSeq(funcs, LAMBDA fn : CategoryOf(fn) = cat)
classMap(fns, className) == SelectSeq(fns, LAMBDA fn : ClassKeyOf(fn) = className)

\* one line of the document: its kind stands for the fixed text of the
\* format string, text, num and items are the values formatted into it
DocLine(kind, text, num, items) ==
    [kind |-> kind, text |-> text, num |-> num, items |-> items]

\* anchor := strings.ToLower(strings.ReplaceAll(cat, " ", "-"))
Anchor(cat) == Str(ToLower(ReplaceLiteral(Chars(cat), 1, <<" ">>, <<"-">>)))

\* variant of DisplayKeywords: every keyword is shown
DisplayAllKeywords(keywords) == keywords

\* displayKeywords: at most the first 8 keywords
DisplayKeywords(keywords) ==
    IF Len(keywords) > 8 THEN SubSeq(keywords, 1, 8) ELSE keywords

\* the counting loop of the header
unityEventCount(funcs) ==
    Len(SelectSeq(funcs, LAMBDA fn : fn.IsUnityEvent))
coroutineCount(funcs) ==
    Len(SelectSeq(funcs, LAMBDA fn : fn.IsCoroutine))

\* the lines written for one function
RenderFunction(fn) ==
    LET markers == (IF fn.IsUnityEvent THEN <<"Unity-event">> ELSE <<>>)
                   \o (IF fn.IsCoroutine THEN <<"coroutine">> ELSE <<>>)
        shown == SelectSeq(fn.Comments, LAMBDA c : TrimSpace(Chars(c)) # <<>>)
    IN  <<DocLine("function", fn.FuncName, 0, markers)>>
        \o (IF Len(fn.Attributes) > 0
            THEN <<DocLine("attributes", "", 0, fn.Attributes)>> ELSE <<>>)
        \o <<DocLine("signature", fn.Signature, 0, <<>>)>>
        \o (IF Len(fn.Comments) > 0
            THEN <<DocLine("comments", "", 0, shown)>> ELSE <<>>)
        \o (IF Len(fn.Keywords) > 0
            THEN <<DocLine("keywords", "", 0, DisplayKeywords(fn.Keywords))>> ELSE <<>>)
        \o <<DocLine("function-end", "", 0, <<>>)>>

RECURSIVE RenderFunctions(_)
RenderFunctions(classFns) ==
    IF classFns = <<>> THEN <<>>
    ELSE RenderFunction(Head(classFns)) \o RenderFunctions(Tail(classFns))

\* the section of one class of a category
RenderClass(fns, className) ==
    LET classFns == classMap(fns, className)
    IN  <<DocLine("class", className, 0, <<>>)>>
        \o (IF Len(classFns) > 0
            THEN <<DocLine("file", "", 0, classFns[1].RelativePath)>> ELSE <<>>)
        \o RenderFunctions(classFns)

RECURSIVE RenderClasses(_, _)
RenderClasses(fns, classNames) ==
    IF classNames = <<>> THEN <<>>
    ELSE RenderClass(fns, Head(classNames)) \o RenderClasses(fns, Tail(classNames))

\* the section of one category; classIter is the order in which range visits
\* the keys of classMap
RenderCategory(funcs, category, classIter) ==
    LET fns == categoryMap(funcs, category)
        keys == {ClassKeyOf(fns[k]) : k \in DOMAIN fns}
        classNames == SortStrings(SelectSeq(classIter, LAMBDA cn : cn \in keys))
    IN  <<DocLine("category", category, 0, <<>>),
          DocLine("contains", "", Len(fns), <<>>)>>
        \o RenderClasses(fns, classNames)

RECURSIVE RenderCategories(_, _, _)
RenderCategories(funcs, categories, classIter) ==
    IF categories = <<>> THEN <<>>
    ELSE RenderCategory(funcs, Head(categories), classIter)
         \o RenderCategories(funcs, Tail(categories), classIter)

\* the navigation list
RECURSIVE RenderNavigation(_, _)
RenderNavigation(funcs, categories) ==
    IF categories = <<>> THEN <<>>
    ELSE <<DocLine("nav", Head(categories),
                   Len(categoryMap(funcs, Head(categories))),
                   <<Anchor(Head(categories))>>)>>
         \o RenderNavigation(funcs, Tail(categories))

\* the keys of categoryMap and of the classMaps of a record list
CategoryKeys(funcs) == {CategoryOf(funcs[k]) : k \in DOMAIN funcs}
ClassKeys(funcs) == {ClassKeyOf(funcs[k]) : k \in DOMAIN funcs}

\* The text GenerateUnityMarkdown builds.  catIter and classIter are the orders
\* in which the range statements visit the keys of categoryMap and of the
\* classMaps: the runtime chooses them.
GenerateUnityMarkdown(funcs, catIter, classIter) ==
    LET categories == SortStrings(catIter)
    IN  <<DocLine("title", "", 0, <<>>),
          DocLine("total", "", Len(funcs), <<>>),
          DocLine("events", "", unityEventCount(funcs), <<>>),
          DocLine("coroutines", "", coroutineCount(funcs), <<>>),
          DocLine("navigation", "", 0, <<>>)>>
        \o RenderNavigation(funcs, categories)
        \o RenderCategories(funcs, categories, classIter)
        \o <<DocLine("tips", "", 0, <<>>)>>

-----------------------------------------------------------------------------
(* GenerateUnityMarkdown as an operation on chosen record lists            *)

\* declarations of the records:    void Update()  /    void Awake()  /
\*   void LoadAllPlayerDataFromDiskNowPleaseOk()
LnUpdate == <<" "," ","v","o","i","d"," ","U","p","d","a","t","e","(",")">>
LnAwake == <<" "," ","v","o","i","d"," ","A","w","a","k","e","(",")">>
LnLoadAll == <<" "," ","v","o","i","d"," ","L","o","a","d","A","l","l","P","l","a","y","e","r","D","a","t","a","F","r","o","m","D","i","s","k","N","o","w","P","l","e","a","s","e","O","k","(",")">>

\* the record ParseFile builds for a declaration line of file dir/file
RenderRecord(dir, file, cls, line, comments, attributes) ==
    FunctionInfo(<<"proj">> \o dir \o <<file>>, dir \o <<file>>, <<>>, cls,
                 line, functionRegex(line), comments, attributes)

RcUpdate == RenderRecord(<<"Scripts">>, "Player.cs", TxPlayer, LnUpdate, <<TxMoves>>, <<>>)
RcAwake == RenderRecord(<<"Scripts">>, "Player.cs", TxPlayer, LnAwake, <<>>, <<>>)
RcStart == RenderRecord(<<"Scripts">>, "Util.cs", <<>>, LnCoroutine, <<>>, <<TxPlayer>>)
RcSpawn == RenderRecord(<<"Scripts">>, "Enemy.cs", TxEnemy, LnPlainDecl, <<TxNote>>, <<>>)
RcLoadAll == RenderRecord(<<"UI">>, "Menu.cs", TxMenu, LnLoadAll, <<TxMoves>>, <<>>)
RcLoose == RenderRecord(<<>>, "Loose.cs", <<>>, LnPlainDecl, <<>>, <<>>)
RecordCatalog == {RcUpdate, RcAwake, RcStart, RcSpawn, RcLoadAll, RcLoose}

\* longest record list handed to the renderer
MaxRecords == 3

InitRender == pc = "start" /\ Idle

\* the caller holds a record list
RenderArgs ==
    /\ pc = "start"
    /\ allFunctions' \in SeqsUpTo(RecordCatalog, MaxRecords)
    /\ pc' = "args"
    /\ UNCHANGED <<parseVars, kwVars, statResult, entries, walkPos, parsedFiles,
                   warnings, scanErr, exitCode, outputWritten, renderVars, runVars, memVars>>

\* GenerateUnityMarkdown(functions, outputPath): the text is built and handed
\* to os.WriteFile, which succeeds or fails
GenerateUnityMarkdownCall ==
    /\ pc = "args"
    /\ \E catIter \in Perms(CategoryKeys(allFunctions)),
          classIter \in Perms(ClassKeys(allFunctions)) :
        /\ mapOrder' = [categories |-> catIter, classes |-> classIter]
        /\ document' = GenerateUnityMarkdown(allFunctions, catIter, classIter)
    /\ outputWritten' \in BOOLEAN
    /\ pc' = "rendered"
    /\ UNCHANGED <<parseVars, kwVars, statResult, entries, walkPos, allFunctions,
                   parsedFiles, warnings, scanErr, exitCode, runVars, memVars>>

NextRender == RenderArgs \/ GenerateUnityMarkdownCall

SpecRender == InitRender /\ [][NextRender]_vars

-----------------------------------------------------------------------------
(* Properties of the rendered document                                     *)

\* the lines of a document of one kind, in order
LinesOfKind(doc, kind) == SelectSeq(doc, LAMBDA ln : ln.kind = kind)

\* the function headings of a document, each with the category and class
\* heading it stands under
RECURSIVE Headings(_, _, _, _)
Headings(doc, k, cat, cls) ==
    IF k > Len(doc) THEN <<>>
    ELSE IF doc[k].kind = "category" THEN Headings(doc, k + 1, doc[k].text, "")
    ELSE IF doc[k].kind = "class" THEN Headings(doc, k + 1, cat, doc[k].text)
    ELSE IF doc[k].kind = "function"
    THEN <<[category |-> cat, class |-> cls, name |-> doc[k].text,
            signature |-> doc[k + 1 + (IF doc[k + 1].kind = "attributes" THEN 1 ELSE 0)].text]>>
         \o Headings(doc, k + 1, cat, cls)
    ELSE Headings(doc, k + 1, cat, cls)

\* where the claim puts a record
SectionOf(fn) ==
    [category |-> IF Len(fn.RelativePath) >= 2 THEN fn.RelativePath[1] ELSE Str(OTHER_),
     class    |-> IF fn.ClassName = "" THEN Str(GLOBAL_) ELSE fn.ClassName]
HeadingOf(fn) ==
    [category |-> SectionOf(fn).category, class |-> SectionOf(fn).class,
     name |-> fn.FuncName, signature |-> fn.Signature]

\* a sequence of strings in strictly ascending byte order
Ascending(seq) == \A k \in 1..(Len(seq) - 1) : StringLess(seq[k], seq[k + 1])

\* the class headings under the category heading of cat
RECURSIVE ClassHeadings(_, _, _, _)
ClassHeadings(doc, k, cur, cat) ==
    IF k > Len(doc) THEN <<>>
    ELSE IF doc[k].kind = "category" THEN ClassHeadings(doc, k + 1, doc[k].text, cat)
    ELSE IF doc[k].kind = "class" /\ cur = cat
    THEN <<doc[k].text>> \o ClassHeadings(doc, k + 1, cur, cat)
    ELSE ClassHeadings(doc, k + 1, cur, cat)

CategoryHeadings(doc) ==
    [k \in DOMAIN LinesOfKind(doc, "category") |-> LinesOfKind(doc, "category")[k].text]

\* C11: every input record is rendered exactly once, under the category of the
\* first segment of its relative path (the catch-all category when the path
\* has no separator) and the class of its class name (the global-functions
\* label when empty); category headings ascend, class headings within a
\* category ascend, and the records of one class keep their input order.
C11_RenderedOnceInSortedSections ==
    pc = "rendered" =>
        LET heads == Headings(document, 1, "", "")
            cats == CategoryHeadings(document)
        IN  /\ Len(heads) = Len(allFunctions)
            /\ \A cat \in Range(cats) \cup {SectionOf(allFunctions[k]).category : k \in DOMAIN allFunctions},
                  cls \in {SectionOf(allFunctions[k]).class : k \in DOMAIN allFunctions} :
                  SelectSeq(heads, LAMBDA h : h.category = cat /\ h.class = cls)
                    = SelectSeq([k \in DOMAIN allFunctions |-> HeadingOf(allFunctions[k])],
                                LAMBDA h : h.category = cat /\ h.class = cls)
            /\ Ascending(cats)
            /\ \A cat \in Range(cats) : Ascending(ClassHeadings(document, 1, "", cat))

\* C11 witness: two categories, one of them the catch-all, visited by range in
\* descending order; a class with two records given in non-alphabetical order
\* and a record without class in between
C11_Witness ==
    /\ pc = "rendered"
    /\ allFunctions = <<RcUpdate, RcLoose, RcAwake>>
    /\ mapOrder.categories = <<Str(OTHER_), "Scripts">>
    /\ CategoryHeadings(document) = <<"Scripts", Str(OTHER_)>>
    /\ [k \in 1..3 |-> Headings(document, 1, "", "")[k].name]
          = <<"Update", "Awake", "update">>
    /\ Headings(document, 1, "", "")[3].class = Str(GLOBAL_)

\* the sum of the counts of a sequence of lines
RECURSIVE SumOfNums(_)
SumOfNums(ls) == IF ls = <<>> THEN 0 ELSE Head(ls).num + SumOfNums(Tail(ls))

\* the first n elements of a sequence, all of them when it is shorter
Take(seq, n) == SubSeq(seq, 1, IF Len(seq) < n THEN Len(seq) ELSE n)

\* the keywords shown below the function heading at line k of a document
RECURSIVE ShownBelow(_, _)
ShownBelow(doc, k) ==
    IF k > Len(doc) \/ doc[k].kind = "function-end" THEN <<>>
    ELSE IF doc[k].kind = "keywords" THEN doc[k].items
    ELSE ShownBelow(doc, k + 1)

\* C18: the header's total is the number of input records, its lifecycle and
\* coroutine counts are the numbers of records with the flag set, the
\* navigation list counts each record in exactly one category (the counts sum
\* to the total), and a function shows its first 8 keywords at most, in
\* keyword order.
C18_CountsAndKeywordCap ==
    pc = "rendered" =>
        LET n == Len(allFunctions)
            val(kind) == LinesOfKind(document, kind)[1].num
            nav == LinesOfKind(document, "nav")
        IN  /\ Len(LinesOfKind(document, "total")) = 1 /\ val("total") = n
            /\ val("events") = Cardinality({k \in 1..n : allFunctions[k].IsUnityEvent})
            /\ val("coroutines") = Cardinality({k \in 1..n : allFunctions[k].IsCoroutine})
            /\ SumOfNums(nav) = n
            /\ \A j \in DOMAIN nav :
                  nav[j].num = Cardinality({k \in 1..n :
                                   SectionOf(allFunctions[k]).category = nav[j].text})
            /\ {<<document[k].text, ShownBelow(document, k)>> :
                    k \in {j \in DOMAIN document : document[j].kind = "function"}}
                  = {<<allFunctions[k].FuncName, Take(allFunctions[k].Keywords, 8)>> :
                        k \in 1..n}
            /\ Len(LinesOfKind(document, "keywords")) = n

\* C18 witness: three records in three categories, one of them a lifecycle
\* callback that is a coroutine too, one with twelve keywords of which eight
\* are shown
C18_Witness ==
    /\ pc = "rendered"
    /\ allFunctions = <<RcLoadAll, RcStart, RcLoose>>
    /\ Len(RcLoadAll.Keywords) = 12
    /\ \E k \in DOMAIN document :
          /\ document[k].kind = "keywords"
          /\ document[k].items
                = <<"load", "all", "player", "data", "from", "disk", "now", "please">>
    /\ LinesOfKind(document, "events")[1].num = 1
    /\ LinesOfKind(document, "coroutines")[1].num = 1
    /\ Len(LinesOfKind(document, "nav")) = 3

-----------------------------------------------------------------------------
(* ScanUnityProject and main                                               *)

ProjectPath == <<"proj">>
\* filepath.Join(projectPath, "Assets")
AssetsPath == Append(ProjectPath, "Assets")
CS_SUFFIX == <<".", "c", "s">>

\* What filepath.Walk visits: path (segments), name (the characters of the
\* last segment), isDir, err (the error Walk passes to the callback),
\* readable (whether os.ReadFile succeeds) and the lines of the content.
Entry(dir, name, isDir, err, ls) ==
    [path |-> AssetsPath \o dir \o (IF name = <<>> THEN <<>> ELSE <<Str(name)>>),
     name |-> name, isDir |-> isDir, err |-> err, readable |-> TRUE, lines |-> ls]

\* the root of the walk
EnRoot == [path |-> AssetsPath, name |-> <<"A","s","s","e","t","s">>,
           isDir |-> TRUE, err |-> FALSE, readable |-> TRUE, lines |-> <<>>]
\* the root when os.Lstat fails on it
EnRootErr == [EnRoot EXCEPT !.err = TRUE]
\* a source file with a class and two declarations, ending in a comment
EnEnemy == Entry(<<>>, <<"E","n","e","m","y",".","c","s">>, FALSE, FALSE,
                 <<LnClassEnemy, LnCoroutine, LnStmt, LnPlainDecl, LnDoc>>)
\* a directory whose name ends in .cs
EnGenDir == Entry(<<>>, <<"G","e","n",".","c","s">>, TRUE, FALSE, <<>>)
\* a directory that cannot be read: Walk hands its error to the callback
EnLocked == Entry(<<>>, <<"L","o","c","k","e","d">>, TRUE, TRUE, <<>>)
\* a source file with one documented declaration
EnPlayer == Entry(<<>>, <<"P","l","a","y","e","r",".","c","s">>, FALSE, FALSE, <<LnDoc, LnPlainDecl>>)
\* a sidecar file
EnMeta == Entry(<<>>, <<"P","l","a","y","e","r",".","c","s",".","m","e","t","a">>, FALSE, FALSE, <<LnStmt>>)
\* a sub-directory
EnUI == [EnRoot EXCEPT !.path = AssetsPath \o <<"UI">>, !.name = <<"U","I">>]
\* a source file in the sub-directory
EnMenu == Entry(<<"UI">>, <<"M","e","n","u",".","c","s">>, FALSE, FALSE,
                <<LnClassMenu, LnHeader, LnCoroutine>>)

\* the entries below the root, in the lexical order in which Walk visits them
EntryCatalog == <<EnEnemy, EnGenDir, EnLocked, EnPlayer, EnMeta, EnUI, EnMenu>>

\* the trees the scan is run on: a choice of entries (a file only with its
\* directory), some of the files unreadable
IsSource(e) == ~e.isDir /\ HasSuffix(e.name, CS_SUFFIX)
RECURSIVE Pick(_, _, _)
Pick(k, present, unreadable) ==
    IF k > Len(EntryCatalog) THEN <<>>
    ELSE (IF k \in present
          THEN <<[EntryCatalog[k] EXCEPT !.readable = (k \notin unreadable)]>>
          ELSE <<>>) \o Pick(k + 1, present, unreadable)
Trees ==
    {<<EnRoot>> \o Pick(1, present, unreadable) :
        present \in {p \in SUBSET DOMAIN EntryCatalog :
                        \A k \in p : EntryCatalog[k] = EnMenu
                            => \E d \in p : EntryCatalog[d] = EnUI},
        unreadable \in SUBSET {k \in DOMAIN EntryCatalog : IsSource(EntryCatalog[k])}}

\* os.IsNotExist(err) on the result of os.Stat(assetsPath)
AssetsMissing(stat) == stat = "notexist"

\* variant of WalkFn: the relative path is taken against the Assets directory
WalkFnRelativeToAssets(st, e) ==
    IF e.err THEN [st EXCEPT !.err = "walk"]
    ELSE IF ~e.isDir /\ HasSuffix(e.name, CS_SUFFIX)
    THEN IF ~e.readable
         THEN [st EXCEPT !.warnings = Append(@, e.path),
                         !.parsed = Append(@, e.path)]
         ELSE [st EXCEPT !.allFunctions = @ \o ParseFile(e.lines, e.path, AssetsPath),
                         !.parsed = Append(@, e.path)]
    ELSE st

\* variant of WalkFn: a file that cannot be read ends the walk with its error
WalkFnFailFast(st, e) ==
    IF e.err \/ (IsSource(e) /\ ~e.readable)
    THEN [st EXCEPT !.err = "walk"]
    ELSE IF IsSource(e)
    THEN [st EXCEPT !.allFunctions = @ \o ParseFile(e.lines, e.path, ProjectPath),
                    !.parsed = Append(@, e.path)]
    ELSE st

\* The callback handed to filepath.Walk, on one entry: st holds allFunctions,
\* the warnings printed, the paths handed to ParseFile and the error returned
\* ("none" for nil).
WalkFn(st, e) ==
    IF e.err THEN [st EXCEPT !.err = "walk"]
    ELSE IF ~e.isDir /\ HasSuffix(e.name, CS_SUFFIX)
    THEN IF ~e.readable
         THEN [st EXCEPT !.warnings = Append(@, e.path),
                         !.parsed = Append(@, e.path)]
         ELSE [st EXCEPT !.allFunctions = @ \o ParseFile(e.lines, e.path, ProjectPath),
                         !.parsed = Append(@, e.path)]
    ELSE st

\* variant of ScanFailed: main goes on whatever the scan returned
ScanFailedIgnored(err) == FALSE

\* main: if err != nil after ScanUnityProject
ScanFailed(err) == err # "none"

InitScan == pc = "start" /\ Idle

\* main with no project path argument: usage is printed, exit code 1
MainUsage ==
    /\ pc = "start"
    /\ exitCode' = "1"
    /\ pc' = "exited"
    /\ UNCHANGED <<renderVars, runVars, memVars, parseVars, kwVars, statResult, entries, walkPos, allFunctions,
                   parsedFiles, warnings, scanErr, outputWritten>>

\* main calls ScanUnityProject(projectPath) on some file system: Assets is
\* missing, cannot be examined, or is there with a tree below it
MainScan ==
    /\ pc = "start"
    /\ \/ statResult' = "notexist" /\ entries' = <<EnRootErr>>
       \/ statResult' = "denied" /\ entries' = <<EnRootErr>>
       \/ statResult' = "ok" /\ entries' \in Trees
    /\ pc' = "stat"
    /\ UNCHANGED <<renderVars, runVars, memVars, parseVars, kwVars, walkPos, allFunctions, parsedFiles,
                   warnings, scanErr, exitCode, outputWritten>>

\* ScanUnityProject up to the walk: the os.Stat test
ScanStat ==
    /\ pc = "stat"
    /\ IF AssetsMissing(statResult)
       THEN /\ scanErr' = "AssetsNotFound"
            /\ allFunctions' = <<>>
            /\ pc' = "scanReturned"
            /\ UNCHANGED walkPos
       ELSE /\ walkPos' = 1
            /\ pc' = "walk"
            /\ UNCHANGED <<scanErr, allFunctions>>
    /\ UNCHANGED <<renderVars, runVars, memVars, parseVars, kwVars, statResult, entries, parsedFiles, warnings,
                   exitCode, outputWritten>>

\* filepath.Walk calls the callback on the next entry; an error it returns
\* ends the walk and is returned with allFunctions
WalkVisit ==
    /\ pc = "walk"
    /\ walkPos <= Len(entries)
    /\ LET st == WalkFn([allFunctions |-> allFunctions, warnings |-> warnings,
                         parsed |-> parsedFiles, err |-> "none"],
                        entries[walkPos])
       IN  /\ allFunctions' = st.allFunctions
           /\ warnings' = st.warnings
           /\ parsedFiles' = st.parsed
           /\ scanErr' = st.err
           /\ pc' = IF st.err # "none" THEN "scanReturned" ELSE "walk"
    /\ walkPos' = walkPos + 1
    /\ UNCHANGED <<renderVars, runVars, memVars, parseVars, kwVars, statResult, entries, exitCode, outputWritten>>

\* the walk is over: ScanUnityProject returns allFunctions and a nil error
WalkEnd ==
    /\ pc = "walk"
    /\ walkPos > Len(entries)
    /\ pc' = "scanReturned"
    /\ UNCHANGED <<parseVars, kwVars, scanVars, renderVars, runVars, memVars>>

\* main after a failed scan: the error is printed, exit code 1
MainScanFailed ==
    /\ pc = "scanReturned"
    /\ ScanFailed(scanErr)
    /\ exitCode' = "1"
    /\ pc' = "exited"
    /\ UNCHANGED <<renderVars, runVars, memVars, parseVars, kwVars, statResult, entries, walkPos, allFunctions,
                   parsedFiles, warnings, scanErr, outputWritten>>

\* main after a successful scan: GenerateUnityMarkdown writes the document
\* (os.WriteFile succeeds or fails) and main returns or exits with code 1
MainGenerate ==
    /\ pc = "scanReturned"
    /\ ~ScanFailed(scanErr)
    /\ \E catIter \in Perms(CategoryKeys(allFunctions)),
          classIter \in Perms(ClassKeys(allFunctions)) :
        /\ mapOrder' = [categories |-> catIter, classes |-> classIter]
        /\ document' = GenerateUnityMarkdown(allFunctions, catIter, classIter)
    /\ \E written \in BOOLEAN :
        /\ outputWritten' = written
        /\ exitCode' = IF written THEN "0" ELSE "1"
    /\ pc' = "exited"
    /\ UNCHANGED <<runVars, memVars, parseVars, kwVars, statResult, entries, walkPos,
                   allFunctions, parsedFiles, warnings, scanErr>>

NextScan ==
    \/ MainUsage \/ MainScan \/ ScanStat \/ WalkVisit \/ WalkEnd
    \/ MainScanFailed \/ MainGenerate

SpecScan == InitScan /\ [][NextScan]_vars

\* main is run a second time on the unchanged tree: a new process, in which
\* os.Stat and the walk meet the same entries in the same order
RunAgain ==
    /\ pc = "exited"
    /\ run = 1
    /\ outputWritten
    /\ run' = 2
    /\ previousDocument' = document
    /\ walkPos' = 0
    /\ allFunctions' = <<>> /\ parsedFiles' = <<>> /\ warnings' = <<>>
    /\ scanErr' = "none" /\ exitCode' = "none" /\ outputWritten' = FALSE
    /\ document' = <<>> /\ mapOrder' = [categories |-> <<>>, classes |-> <<>>]
    /\ pc' = "stat"
    /\ UNCHANGED <<parseVars, kwVars, statResult, entries, memVars>>

NextTwice == NextScan \/ RunAgain

SpecTwice == InitScan /\ [][NextTwice]_vars

-----------------------------------------------------------------------------
(* A project of one source file: the line scan followed by the rendering   *)

\* namespace Game.Core  /    public class Player
LnNamespace == <<"n","a","m","e","s","p","a","c","e"," ","G","a","m","e",".","C","o","r","e">>
LnClassPlayer == <<" "," ","p","u","b","l","i","c"," ","c","l","a","s","s"," ","P","l","a","y","e","r">>

ClassFileCatalog ==
    {LnNamespace, LnClassPlayer, LnClassEnemy, LnDoc, LnLoadAll}

\* longest file of the one-file project, in lines
MaxFileLines == 4

ClassFileLines == SeqsUpTo(ClassFileCatalog, MaxFileLines) \ {<<>>}

\* ParseFile up to the loop, on the one source file of the project
ParseClassFileBegin ==
    /\ pc = "start"
    /\ \E ls \in ClassFileLines :
        /\ lines' = ls
        /\ currentNamespace' = NamespaceOf(Content(ls))
        /\ currentClass' = ClassOf(Content(ls))
    /\ i' = 1
    /\ currentComments' = <<>>
    /\ currentAttributes' = <<>>
    /\ functions' = <<>>
    /\ emittedAt' = <<>>
    /\ pc' = "scan"
    /\ UNCHANGED <<kwVars, scanVars, renderVars, runVars, memVars>>

\* allFunctions = append(allFunctions, functions...); the walk ends and
\* ScanUnityProject returns
ScanAppend ==
    /\ pc = "returned"
    /\ allFunctions' = allFunctions \o functions
    /\ pc' = "scanReturned"
    /\ UNCHANGED <<parseVars, kwVars, statResult, entries, walkPos, parsedFiles,
                   warnings, scanErr, exitCode, outputWritten, renderVars, runVars, memVars>>

NextFile ==
    ParseClassFileBegin \/ ParseLine \/ ParseReturn \/ ScanAppend \/ MainGenerate

SpecFile == InitParse /\ [][NextFile]_vars

-----------------------------------------------------------------------------
(* The slices of ParseFile, ScanUnityProject and GenerateUnityMarkdown in  *)
(* memory.  A slice is a header (backing array, length); the arrays live   *)
(* in stringArrays ([]string) and recordArrays ([]FunctionInfo), a cell of *)
(* a string array holding the string as Str gives it.  Arrays that no      *)
(* slice refers to any more stay where they are.                           *)

\* cap(s) and the elements s[0], ..., s[len(s)-1]
Cap(arrays, s) == IF s.ptr = 0 THEN 0 ELSE Len(arrays[s.ptr])
Elems(arrays, s) == IF s.ptr = 0 THEN <<>> ELSE SubSeq(arrays[s.ptr], 1, s.len)

\* the capacity of the array append allocates when the old one is full: the
\* runtime doubles a small slice, or takes the needed length if that is more
GrowCap(oldCap, newLen) == IF newLen > 2 * oldCap THEN newLen ELSE 2 * oldCap

\* make([]T, n), and []T{} for n = 0: a new array of n zero values
Make(arrays, n, zero) ==
    [arrays |-> Append(arrays, [k \in 1..n |-> zero]),
     slice  |-> [ptr |-> Len(arrays) + 1, len |-> n]]

\* copy(dst, src): the first min(len(dst), len(src)) cells of dst's array are
\* overwritten with the elements of src
Copy(arrays, dst, src) ==
    IF dst.ptr = 0 \/ src.ptr = 0 THEN arrays
    ELSE [arrays EXCEPT ![dst.ptr] =
             [k \in DOMAIN @ |-> IF k <= Min({dst.len, src.len})
                                 THEN arrays[src.ptr][k] ELSE @[k]]]

\* append(s, xs...): the elements are written behind s in its own array when
\* the capacity suffices, otherwise s and the elements go to a new array
append(arrays, s, xs, zero) ==
    IF xs = <<>> THEN [arrays |-> arrays, slice |-> s]
    ELSE IF s.len + Len(xs) <= Cap(arrays, s)
    THEN [arrays |-> [arrays EXCEPT ![s.ptr] =
                         [k \in DOMAIN @ |-> IF k > s.len /\ k <= s.len + Len(xs)
                                             THEN xs[k - s.len] ELSE @[k]]],
          slice  |-> [s EXCEPT !.len = @ + Len(xs)]]
    ELSE [arrays |-> Append(arrays,
                            [k \in 1..GrowCap(Cap(arrays, s), s.len + Len(xs)) |->
                                IF k <= s.len THEN arrays[s.ptr][k]
                                ELSE IF k <= s.len + Len(xs) THEN xs[k - s.len]
                                ELSE zero]),
          slice  |-> [ptr |-> Len(arrays) + 1, len |-> s.len + Len(xs)]]

\* a loop that appends the elements of xs to s one at a time
RECURSIVE AppendEach(_, _, _, _)
AppendEach(arrays, s, xs, zero) ==
    IF xs = <<>> THEN [arrays |-> arrays, slice |-> s]
    ELSE LET r == append(arrays, s, <<Head(xs)>>, zero)
         IN  AppendEach(r.arrays, r.slice, Tail(xs), zero)

\* sort.Strings(s): the elements of s are sorted inside their array
SortInPlace(arrays, s) ==
    IF s.ptr = 0 THEN arrays
    ELSE [arrays EXCEPT ![s.ptr] =
             SortStrings(SubSeq(@, 1, s.len)) \o SubSeq(@, s.len + 1, Len(@))]

\* the zero value of FunctionInfo, which fills the unused cells of an array
ZeroFunctionInfo ==
    [FileName |-> "", FilePath |-> <<>>, RelativePath |-> <<>>, Namespace |-> "",
     ClassName |-> "", FuncName |-> "", Signature |-> "",
     Comments |-> NilSlice, Attributes |-> NilSlice,
     IsUnityEvent |-> FALSE, IsCoroutine |-> FALSE, Keywords |-> NilSlice]

\* variant of AttachCopy: the record's list is the accumulator's slice itself
AttachShared(arrays, accumulator) == [arrays |-> arrays, slice |-> accumulator]

\* Comments: make([]string, len(currentComments)) followed by
\* copy(funcInfo.Comments, currentComments), and the same for Attributes
AttachCopy(arrays, accumulator) ==
    LET made == Make(arrays, accumulator.len, "")
    IN  [arrays |-> Copy(made.arrays, made.slice, accumulator), slice |-> made.slice]

\* One iteration of the loop over lines, on the slices: m holds the two
\* array stores and the headers of currentComments, currentAttributes and
\* functions.  The branches are those of LineStep.  Of extractKeywords the
\* store keeps the array of the slice it returns (uniqueKeywords, built by
\* appends to []string{}); the arrays it uses on the way are its own.
LineStepInMemory(m, line, filePath, relativePath, ns, cls) ==
    LET trimmed == TrimSpace(line)
    IN  IF IsAttributeLine(trimmed)
        THEN IF attributeRegex(trimmed).ok
             THEN LET r == append(m.strings, m.attributes,
                                  <<Str(attributeRegex(trimmed).m1)>>, "")
                  IN  [m EXCEPT !.strings = r.arrays, !.attributes = r.slice]
             ELSE m
        ELSE IF HasPrefix(trimmed, SLASH3)
        THEN LET comment == cleanXMLTags(TrimSpace(TrimPrefix(trimmed, SLASH3)))
                 r == append(m.strings, m.comments, <<Str(comment)>>, "")
             IN  IF comment # <<>>
                 THEN [m EXCEPT !.strings = r.arrays, !.comments = r.slice]
                 ELSE m
        ELSE IF HasPrefix(trimmed, SLASH2)
        THEN LET comment == TrimSpace(TrimPrefix(trimmed, SLASH2))
                 r == append(m.strings, m.comments, <<Str(comment)>>, "")
             IN  IF comment # <<>> /\ ~HasPrefix(comment, <<"/">>)
                 THEN [m EXCEPT !.strings = r.arrays, !.comments = r.slice]
                 ELSE m
        ELSE IF functionRegex(line).ok
        THEN LET match == functionRegex(line)
                 read == Elems(m.strings, m.comments)
                 unique == Make(m.strings, 0, "")
                 keywords == AppendEach(unique.arrays, unique.slice,
                                        StrAll(extractKeywords(
                                            match.m3,
                                            [k \in DOMAIN read |-> Chars(read[k])])),
                                        "")
                 comments == AttachCopy(keywords.arrays, m.comments)
                 attributes == AttachCopy(comments.arrays, m.attributes)
                 funcInfo == [FunctionInfo(filePath, relativePath, ns, cls, line,
                                           match, <<>>, <<>>)
                                 EXCEPT !.Comments = comments.slice,
                                        !.Attributes = attributes.slice,
                                        !.Keywords = keywords.slice]
                 appended == append(m.records, m.functions, <<funcInfo>>,
                                    ZeroFunctionInfo)
             IN  [strings |-> attributes.arrays, records |-> appended.arrays,
                  comments |-> NilSlice, attributes |-> NilSlice,
                  functions |-> appended.slice]
        ELSE IF ClearsCache(trimmed)
        THEN [m EXCEPT !.comments = NilSlice, !.attributes = NilSlice]
        ELSE m

\* the loop that fills a map of slices (categoryMap, classMap): record k is
\* appended to the slice found under keys[k]
RECURSIVE GroupLoop(_, _, _, _, _)
GroupLoop(records, fns, keys, k, map) ==
    IF k > Len(fns) THEN [records |-> records, map |-> map]
    ELSE LET r == append(records, map[keys[k]], <<fns[k]>>, ZeroFunctionInfo)
         IN  GroupLoop(r.arrays, fns, keys, k + 1, [map EXCEPT ![keys[k]] = r.slice])

\* displayKeywords := fn.Keywords, cut to displayKeywords[:8] if longer: a
\* header of the renderer's own on the record's array
DisplaySlice(keywords) ==
    IF keywords.len > 8 THEN [keywords EXCEPT !.len = 8] ELSE keywords

\* the loop over the records of one class: markers is built for each record,
\* comments and keywords are read through the record's headers
RECURSIVE FunctionsInMemory(_, _, _)
FunctionsInMemory(strings, classFns, k) ==
    IF k > Len(classFns) THEN strings
    ELSE LET fn == classFns[k]
             made == Make(strings, 0, "")
             markers == AppendEach(made.arrays, made.slice,
                                   (IF fn.IsUnityEvent THEN <<"Unity event">> ELSE <<>>)
                                   \o (IF fn.IsCoroutine THEN <<"coroutine">> ELSE <<>>),
                                   "")
         IN  FunctionsInMemory(markers.arrays, classFns, k + 1)

RECURSIVE ClassesInMemory(_, _, _, _)
ClassesInMemory(strings, records, map, classNames) ==
    IF classNames = <<>> THEN strings
    ELSE ClassesInMemory(
             FunctionsInMemory(strings, Elems(records, map[Head(classNames)]), 1),
             records, map, Tail(classNames))

\* the loop over the sorted categories: classMap is filled, classNames
\* collected in the order range visits the keys and sorted in place
RECURSIVE CategoriesInMemory(_, _, _, _, _)
CategoriesInMemory(strings, records, map, categories, classIter) ==
    IF categories = <<>> THEN [strings |-> strings, records |-> records]
    ELSE LET fns == Elems(records, map[Head(categories)])
             classes == GroupLoop(records, fns,
                                  [k \in DOMAIN fns |-> ClassKeyOf(fns[k])], 1,
                                  [cn \in ClassKeys(fns) |-> NilSlice])
             classNames == AppendEach(strings, NilSlice,
                                      SelectSeq(classIter,
                                                LAMBDA cn : cn \in ClassKeys(fns)),
                                      "")
             sorted == SortInPlace(classNames.arrays, classNames.slice)
         IN  CategoriesInMemory(
                 ClassesInMemory(sorted, classes.records, classes.map,
                                 Elems(sorted, classNames.slice)),
                 classes.records, map, Tail(categories), classIter)

\* What GenerateUnityMarkdown(functions, outputPath) does to the arrays: its
\* parameter is a copy of the caller's header, categoryMap is filled,
\* categories collected and sorted in place, then the sections are written
GenerateUnityMarkdownInMemory(strings, records, funcs, catIter, classIter) ==
    LET fns == Elems(records, funcs)
        cats == GroupLoop(records, fns,
                          [k \in DOMAIN fns |-> CategoryOf(fns[k])], 1,
                          [cat \in CategoryKeys(fns) |-> NilSlice])
        categories == AppendEach(strings, NilSlice, catIter, "")
        sorted == SortInPlace(categories.arrays, categories.slice)
    IN  CategoriesInMemory(sorted, cats.records, cats.map,
                           Elems(sorted, categories.slice), classIter)

\* the records a slice of FunctionInfo holds, their lists read from the arrays
LoadedRecord(strings, rec) ==
    [rec EXCEPT !.Comments = Elems(strings, @),
                !.Attributes = Elems(strings, @),
                !.Keywords = Elems(strings, @)]
LoadedRecords(strings, records, s) ==
    [k \in 1..s.len |-> LoadedRecord(strings, records[s.ptr][k])]

-----------------------------------------------------------------------------
(* One source file parsed, appended to the scan result and rendered, on    *)
(* the slices in memory                                                    *)

MemoryFileCatalog == {LnDoc, LnComment, LnHeader, LnLoadAll, LnStmt}

\* longest file of the run on slices, in lines
MaxMemoryLines == 4

MemoryFileLines == SeqsUpTo(MemoryFileCatalog, MaxMemoryLines) \ {<<>>}

\* ParseFile up to the loop: functions, currentComments and currentAttributes
\* are declared without a value, which makes them nil
ParseFileInMemoryBegin ==
    /\ pc = "start"
    /\ \E ls \in MemoryFileLines :
        /\ lines' = ls
        /\ currentNamespace' = NamespaceOf(Content(ls))
        /\ currentClass' = ClassOf(Content(ls))
    /\ i' = 1
    /\ stringArrays' = <<>>
    /\ recordArrays' = <<>>
    /\ commentsSlice' = NilSlice
    /\ attributesSlice' = NilSlice
    /\ functionsSlice' = NilSlice
    /\ pc' = "memScan"
    /\ UNCHANGED <<currentComments, currentAttributes, functions, emittedAt,
                   allFunctionsSlice, kwVars, scanVars, renderVars, runVars>>

\* one iteration of the loop, on lines[i]
ParseLineInMemory ==
    /\ pc = "memScan"
    /\ i <= Len(lines)
    /\ LET m == LineStepInMemory([strings |-> stringArrays, records |-> recordArrays,
                                  comments |-> commentsSlice,
                                  attributes |-> attributesSlice,
                                  functions |-> functionsSlice],
                                 lines[i], ParsedPath, Rel(RootPath, ParsedPath),
                                 currentNamespace, currentClass)
       IN  /\ stringArrays' = m.strings
           /\ recordArrays' = m.records
           /\ commentsSlice' = m.comments
           /\ attributesSlice' = m.attributes
           /\ functionsSlice' = m.functions
    /\ i' = i + 1
    /\ UNCHANGED <<pc, lines, currentNamespace, currentClass, currentComments,
                   currentAttributes, functions, emittedAt, allFunctionsSlice,
                   kwVars, scanVars, renderVars, runVars>>

\* the loop ends and ParseFile returns functions
ParseReturnInMemory ==
    /\ pc = "memScan"
    /\ i > Len(lines)
    /\ pc' = "memReturned"
    /\ UNCHANGED <<parseVars, kwVars, scanVars, renderVars, runVars, memVars>>

\* allFunctions = append(allFunctions, functions...), allFunctions being nil
\* before the first file
ScanAppendInMemory ==
    /\ pc = "memReturned"
    /\ LET r == append(recordArrays, allFunctionsSlice,
                       Elems(recordArrays, functionsSlice), ZeroFunctionInfo)
       IN  /\ recordArrays' = r.arrays
           /\ allFunctionsSlice' = r.slice
    /\ pc' = "memScanned"
    /\ UNCHANGED <<parseVars, kwVars, scanVars, renderVars, runVars, stringArrays,
                   commentsSlice, attributesSlice, functionsSlice>>

\* main after the scan: GenerateUnityMarkdown(functions, outputPath) on the scan
\* result; the text is handed to os.WriteFile, which succeeds or fails, and
\* main returns or exits with status 1
GenerateInMemory ==
    /\ pc = "memScanned"
    /\ LET funcs == LoadedRecords(stringArrays, recordArrays, allFunctionsSlice)
       IN  \E catIter \in Perms(CategoryKeys(funcs)),
              classIter \in Perms(ClassKeys(funcs)) :
               /\ mapOrder' = [categories |-> catIter, classes |-> classIter]
               /\ document' = GenerateUnityMarkdown(funcs, catIter, classIter)
               /\ LET r == GenerateUnityMarkdownInMemory(stringArrays, recordArrays,
                                                         allFunctionsSlice,
                                                         catIter, classIter)
                  IN  /\ stringArrays' = r.strings
                      /\ recordArrays' = r.records
    /\ \E written \in BOOLEAN :
        /\ outputWritten' = written
        /\ exitCode' = IF written THEN "0" ELSE "1"
    /\ pc' = "memRendered"
    /\ UNCHANGED <<parseVars, kwVars, statResult, entries, walkPos, allFunctions,
                   parsedFiles, warnings, scanErr, runVars, commentsSlice,
                   attributesSlice, functionsSlice, allFunctionsSlice>>

NextMemory ==
    \/ ParseFileInMemoryBegin \/ ParseLineInMemory \/ ParseReturnInMemory
    \/ ScanAppendInMemory \/ GenerateInMemory

SpecMemory == InitParse /\ [][NextMemory]_vars

-----------------------------------------------------------------------------
(* The line scan on files of comment and annotation lines                  *)

\* a line comment whose text starts with a slash:  // /path
LnSlashPath == <<"/","/"," ","/","p","a","t","h">>
\* annotation lines:  [A, B]  /  [Foo.Bar]  /  [Tip("a)b")]
LnTwoAttrs == <<"[","A",","," ","B","]">>
LnDotted == <<"[","F","o","o",".","B","a","r","]">>
LnArgParen == <<"[","T","i","p","(","\"","a",")","b","\"",")","]">>

MarkedFileCatalog ==
    {LnSlashPath, LnComment, LnTwoAttrs, LnDotted, LnArgParen, LnHeader,
     LnPlainDecl, LnStmt}

MarkedFileLines == SeqsUpTo(MarkedFileCatalog, MaxLines) \ {<<>>}

\* ParseFile up to the loop, on a file of comment and annotation lines
ParseMarkedFileBegin ==
    /\ pc = "start"
    /\ \E ls \in MarkedFileLines :
        /\ lines' = ls
        /\ currentNamespace' = NamespaceOf(Content(ls))
        /\ currentClass' = ClassOf(Content(ls))
    /\ i' = 1
    /\ currentComments' = <<>>
    /\ currentAttributes' = <<>>
    /\ functions' = <<>>
    /\ emittedAt' = <<>>
    /\ pc' = "scan"
    /\ UNCHANGED <<kwVars, scanVars, renderVars, runVars, memVars>>

NextMarks == ParseMarkedFileBegin \/ ParseLine \/ ParseReturn

SpecMarks == InitParse /\ [][NextMarks]_vars

\* the text after the marker of a line comment, trimmed
RemainderOf(line) == TrimSpace(TrimPrefix(TrimSpace(line), SLASH2))
\* a line comment that is no documentation comment and has text
IsLineCommentWithText(line) ==
    /\ HasPrefix(TrimSpace(line), SLASH2)
    /\ ~HasPrefix(TrimSpace(line), SLASH3)
    /\ RemainderOf(line) # <<>>
\* the identifier that follows the opening bracket
LeadingIdentifier(line) == Sub(TrimSpace(line), 2, WordEnd(TrimSpace(line), 2) - 1)

\* C15: a line that starts with // but not with ///, with text after the
\* marker, appends that text, trimmed, to the pending comments and leaves the
\* pending annotations as they are, also when the text starts with a slash.
C15_LineCommentAppendsRemainder ==
    [][(pc = "scan" /\ i <= Len(lines) /\ IsLineCommentWithText(lines[i])) =>
          /\ currentComments' = Append(currentComments, RemainderOf(lines[i]))
          /\ currentAttributes' = currentAttributes
      ]_vars

\* C16: a bracket-delimited line appends exactly one annotation name, the
\* identifier that follows the opening bracket, to the pending annotations
\* and leaves the pending comments as they are, also when it lists several
\* annotations, has a dotted name or has arguments that contain a ")".
C16_AnnotationLineAppendsName ==
    [][(pc = "scan" /\ i <= Len(lines) /\ IsBracketDelimited(lines[i])) =>
          /\ currentAttributes' = Append(currentAttributes, LeadingIdentifier(lines[i]))
          /\ currentComments' = currentComments
      ]_vars

-----------------------------------------------------------------------------
(* Properties of the scan                                                  *)

\* C9: when Assets does not exist, ScanUnityProject returns the
\* Assets-not-found error and no record, without starting the walk or parsing
\* a file; main then exits with a non-zero code and writes no document.
C9_MissingAssetsFailsScan ==
    (statResult = "notexist" /\ pc \in {"scanReturned", "exited"}) =>
        /\ scanErr = "AssetsNotFound"
        /\ allFunctions = <<>>
        /\ walkPos = 0 /\ parsedFiles = <<>> /\ warnings = <<>>
        /\ pc = "exited" => (exitCode = "1" /\ ~outputWritten)

\* C9 witness: main has exited after a scan of a root without Assets
C9_Witness ==
    /\ statResult = "notexist"
    /\ pc = "exited"
    /\ scanErr = "AssetsNotFound"
    /\ exitCode = "1"

\* the records of the readable source files among es, in order
RECURSIVE RecordsOf(_)
RecordsOf(es) ==
    IF es = <<>> THEN <<>>
    ELSE (IF IsSource(Head(es)) /\ Head(es).readable
          THEN ParseFile(Head(es).lines, Head(es).path, ProjectPath)
          ELSE <<>>) \o RecordsOf(Tail(es))
\* the paths of the unreadable source files among es, in order
RECURSIVE UnreadableOf(_)
UnreadableOf(es) ==
    IF es = <<>> THEN <<>>
    ELSE (IF IsSource(Head(es)) /\ ~Head(es).readable
          THEN <<Head(es).path>> ELSE <<>>) \o UnreadableOf(Tail(es))
\* no entry of the tree carries a traversal error
WalkClean == statResult = "ok" /\ \A k \in DOMAIN entries : ~entries[k].err

\* C10: a source file that cannot be read is skipped with one warning and the
\* walk goes on: ScanUnityProject returns no error and exactly the records of
\* every readable source file, in traversal order.
C10_UnreadableFileSkipped ==
    (WalkClean /\ pc \in {"scanReturned", "exited"}) =>
        /\ scanErr = "none"
        /\ allFunctions = RecordsOf(entries)
        /\ warnings = UnreadableOf(entries)
        /\ pc = "exited" => exitCode = (IF outputWritten THEN "0" ELSE "1")

\* C10 witness: an unreadable file between two readable ones; the records of
\* both are returned and one warning names the unreadable file
C10_Witness ==
    /\ pc = "scanReturned"
    /\ WalkClean
    /\ \E a, b, c \in DOMAIN entries :
          /\ a < b /\ b < c
          /\ IsSource(entries[a]) /\ entries[a].readable
          /\ IsSource(entries[b]) /\ ~entries[b].readable
          /\ IsSource(entries[c]) /\ entries[c].readable
          /\ warnings = <<entries[b].path>>
          /\ Len(allFunctions) = 3
          /\ allFunctions[1].FileName = "Enemy.cs"
          /\ allFunctions[3].FileName = "Menu.cs"

\* C12: a second run of main on the unchanged tree, visited in the same order,
\* builds the same document as the first, whatever order range gives the keys
\* of the category and class maps in either run; the document depends on the
\* record list only, and no record carries a comment of the file parsed
\* before its own.
C12_SecondRunSameDocument ==
    /\ (run = 2 /\ pc = "exited" /\ outputWritten) => document = previousDocument
    /\ (pc = "exited" /\ outputWritten) =>
          /\ \A catIter \in Perms(CategoryKeys(allFunctions)),
                classIter \in Perms(ClassKeys(allFunctions)) :
                document = GenerateUnityMarkdown(allFunctions, catIter, classIter)
          /\ \A k \in DOMAIN allFunctions :
                allFunctions[k].FileName = "Player.cs"
                    => allFunctions[k].Comments = <<"Moves the player.">>

\* C12 witness: the second run is over; range gave the class keys in another
\* order than in the first run would sort them, and the file parsed before
\* Player.cs ended in a comment
C12_Witness ==
    /\ run = 2 /\ pc = "exited" /\ outputWritten
    /\ previousDocument # <<>> /\ document = previousDocument
    /\ Len(mapOrder.classes) = 3
    /\ mapOrder.classes # SortStrings(mapOrder.classes)
    /\ \E k \in DOMAIN allFunctions :
          /\ k > 1
          /\ allFunctions[k].FileName = "Player.cs"
          /\ allFunctions[k - 1].FileName = "Enemy.cs"

\* C19: the relative path of every scanned record is taken against the
\* project root, so it has at least two segments and the first is Assets; the
\* document of a non-empty scan result has exactly one category, Assets,
\* holding every record, and the catch-all category does not appear.
C19_ScannedRecordsInAssetsCategory ==
    /\ \A k \in DOMAIN allFunctions :
          /\ allFunctions[k].RelativePath
                = <<"Assets">> \o SubSeq(allFunctions[k].FilePath, Len(ProjectPath) + 2,
                                         Len(allFunctions[k].FilePath))
          /\ Len(allFunctions[k].RelativePath) >= 2
    /\ (pc = "exited" /\ document # <<>>) =>
          IF allFunctions = <<>>
          THEN CategoryHeadings(document) = <<>> /\ LinesOfKind(document, "nav") = <<>>
          ELSE /\ CategoryHeadings(document) = <<"Assets">>
               /\ LinesOfKind(document, "nav")
                     = <<DocLine("nav", "Assets", Len(allFunctions), <<"assets">>)>>
               /\ \A k \in DOMAIN document : document[k].text # Str(OTHER_)

\* C19 witness: records of a file directly under Assets and of a file in a
\* sub-directory, rendered into the one category
C19_Witness ==
    /\ pc = "exited" /\ outputWritten
    /\ \E j, k \in DOMAIN allFunctions :
          /\ allFunctions[j].RelativePath = <<"Assets", "Player.cs">>
          /\ allFunctions[k].RelativePath = <<"Assets", "UI", "Menu.cs">>
    /\ CategoryHeadings(document) = <<"Assets">>

\* C14: a record, once emitted, is changed by no later step.  In the line
\* scan every step leaves the records emitted before it as they were, lists
\* included, while comments and annotations accumulate, are reset and later
\* declarations follow; the lists of a record emitted by the step hold what
\* the accumulators held and are copies: each lies in an array allocated by
\* that step.  The append to the scan result hands the records on unchanged,
\* and GenerateUnityMarkdown leaves every field of every record it is given
\* as it was.
C14_EmittedRecordsUnchanged ==
    [][LET before == LoadedRecords(stringArrays, recordArrays, functionsSlice)
           after == LoadedRecords(stringArrays', recordArrays', functionsSlice')
           given == LoadedRecords(stringArrays, recordArrays, allFunctionsSlice)
           left == LoadedRecords(stringArrays', recordArrays', allFunctionsSlice')
       IN  /\ pc = "memScan" =>
                /\ Len(after) >= Len(before)
                /\ SubSeq(after, 1, Len(before)) = before
                /\ \A k \in (Len(before) + 1)..Len(after) :
                      LET rec == recordArrays'[functionsSlice'.ptr][k]
                      IN  /\ after[k].Comments = Elems(stringArrays, commentsSlice)
                          /\ after[k].Attributes = Elems(stringArrays, attributesSlice)
                          /\ rec.Comments.ptr > Len(stringArrays)
                          /\ rec.Attributes.ptr > Len(stringArrays)
                          /\ rec.Comments.ptr # rec.Attributes.ptr
           /\ pc = "memReturned" => (after = before /\ left = before)
           /\ pc = "memScanned" => (after = before /\ left = given)
      ]_vars

\* C14 witness: a record with a comment, an annotation and more than eight
\* keywords was emitted on line 3 and another comment accumulated after it,
\* in an array of its own; the record was appended to the scan result and
\* rendered, the renderer wrote arrays of its own (the sorted category keys)
\* and showed eight keywords: the record is as ParseFile built it
C14_Witness ==
    /\ pc = "memRendered" /\ outputWritten /\ exitCode = "0"
    /\ lines = <<LnDoc, LnHeader, LnLoadAll, LnComment>>
    /\ LET given == LoadedRecords(stringArrays, recordArrays, allFunctionsSlice)
           rec == recordArrays[allFunctionsSlice.ptr][1]
       IN  /\ given = ParseFile(lines, ParsedPath, RootPath)
           /\ Len(given) = 1
           /\ given[1].Comments = <<"Moves the player.">>
           /\ given[1].Attributes = <<"Header">>
           /\ Len(given[1].Keywords) > 8
           /\ Elems(stringArrays, commentsSlice) = <<"IEnumerator Update">>
           /\ commentsSlice.ptr # rec.Comments.ptr
           /\ Len(Elems(stringArrays, DisplaySlice(rec.Keywords))) = 8
    /\ \E a \in DOMAIN stringArrays : stringArrays[a] = <<"Assets">>
    /\ \E k \in DOMAIN document :
          document[k].kind = "keywords" /\ Len(document[k].items) = 8

\* C17: every record of one ParseFile call carries the first namespace and the
\* first class of the file text, wherever its declaration stands (before the
\* class line or after a second one), and the same file name, file path and
\* relative path.
C17_OneNamespaceAndClassPerFile ==
    LET nsLines == {n \in DOMAIN lines : lines[n] = LnNamespace}
        clsLines == {n \in DOMAIN lines : lines[n] \in {LnClassPlayer, LnClassEnemy}}
        ns == IF nsLines = {} THEN "" ELSE "Game.Core"
        cls == IF clsLines = {} THEN ""
               ELSE IF lines[Min(clsLines)] = LnClassPlayer THEN "Player" ELSE "Enemy"
    IN  \A k \in DOMAIN functions :
            /\ functions[k].Namespace = ns
            /\ functions[k].ClassName = cls
            /\ functions[k].FileName = "Player.cs"
            /\ functions[k].FilePath = <<"proj", "Assets", "Scripts", "Player.cs">>
            /\ functions[k].RelativePath = <<"Assets", "Scripts", "Player.cs">>

\* C17 witness: a declaration above the first class line and one below a
\* second class line, both with the first class
C17_Witness ==
    /\ pc = "returned"
    /\ lines = <<LnLoadAll, LnClassPlayer, LnClassEnemy, LnLoadAll>>
    /\ Len(functions) = 2
    /\ functions[1].ClassName = "Player" /\ functions[2].ClassName = "Player"

====
